---- MODULE Spec2Model ----
(***************************************************************************)
(* Model of the alert engine of the Linux server monitoring system         *)
(* (src/server/alerts/engine.py) over the storage operations it calls      *)
(* (src/server/database/operations.py).                                    *)
(*                                                                         *)
(* Strings that the code parses (alert messages, mountpoints) are modelled *)
(* as sequences of chunks in which a blank is always a chunk of its own,   *)
(* so that message.split(' ')[-1] is computed, not assumed.  Percentages   *)
(* and times are integers.  A nullable column is <<>> (NULL) or <<v>>.     *)
(***************************************************************************)
EXTENDS Integers, Sequences, FiniteSets, TLC

VARIABLES servers, alerts, health, now, webhook_urls, ret, workers,
          metrics_table, sender, transmitter, agent, security

vars == <<servers, alerts, health, now, webhook_urls, ret, workers,
         metrics_table, sender, transmitter, agent, security>>

(***************************************************************************)
(* Bounds of the model.                                                    *)
(***************************************************************************)
MaxAlerts == 2
MaxTicks == 2
MaxDisks == 1

(***************************************************************************)
(* Program constants (defaults of AlertEngine.__init__).                   *)
(***************************************************************************)
cpu_threshold == 90
disk_threshold == 80
offline_timeout == 300
webhook_retry_attempts == 3
cpu_critical == 95
disk_critical == 90

None == <<>>
Some(v) == <<v>>

Hosts == {"h1", "h2"}
AlertTypes == {"cpu", "disk", "offline"}

\* Mountpoints accepted by DiskUsageModel.validate_mountpoint: "/" and
\* "/my disk" (a blank inside a path is accepted).
Mounts == {<<"/">>, <<"/my", " ", "disk">>}
CpuValues == {80, 95}
DiskValues == {70, 85}

DiskUsages == [mountpoint : Mounts, percentage : DiskValues]

DiskLists == UNION {[1..n -> DiskUsages] : n \in 0..MaxDisks}

Samples == [server_id : Hosts, cpu_usage : CpuValues, disk_usage : DiskLists]

\* What a sink answers to one POST: a response with a status code, or a
\* transport exception raised by requests.post.
Outcomes == {[raised |-> FALSE, status_code |-> 200],
             [raised |-> FALSE, status_code |-> 500],
             [raised |-> TRUE, status_code |-> 0]}

\* The answers of one sink to the successive attempts of one delivery.
Scripts == [1..webhook_retry_attempts -> Outcomes]

(***************************************************************************)
(* String helpers.                                                         *)
(***************************************************************************)
RECURSIVE LastToken(_)
\* s.split(' ')[-1]: the chunks after the last blank.
LastToken(s) ==
    IF s = <<>> THEN <<>>
    ELSE IF s[Len(s)] = " " THEN <<>>
         ELSE LastToken(SubSeq(s, 1, Len(s) - 1)) \o <<s[Len(s)]>>

\* f"{v:.1f}%"
FormatPct(v) == <<ToString(v), ".0", "%">>

CpuMessage(server_id, v) ==
    <<"High", " ", "CPU", " ", "usage", " ", "on", " ", server_id, ":", " ">>
        \o FormatPct(v)

DiskMessage(server_id, v, mountpoint) ==
    <<"High", " ", "disk", " ", "usage", " ", "on", " ", server_id, ":", " ">>
        \o FormatPct(v) \o <<" ", "(">> \o mountpoint \o <<")">>

OfflineMessage(server_id, minutes) ==
    <<"Server", " ", server_id, " ", "has", " ", "been", " ", "offline", " ",
      "for", " ", ToString(minutes), " ", "minutes">>

(***************************************************************************)
(* Storage operations (AlertOperations, ServerOperations,                  *)
(* HealthStatusOperations).  The alerts table is a sequence; an alert's id *)
(* is its index.                                                           *)
(***************************************************************************)
NoFilter == ""

NewAlert(server_id, alert_type, severity, message, threshold_value, actual_value) ==
    [server_id |-> server_id, alert_type |-> alert_type, severity |-> severity,
     message |-> message, threshold_value |-> threshold_value,
     actual_value |-> actual_value, resolved_at |-> None, is_resolved |-> FALSE,
     webhook_sent |-> FALSE, webhook_response_code |-> None]

\* Mutant: the threshold and the measured value are stored swapped.
create_alert_swapped(als, server_id, alert_type, severity, message, threshold_value, actual_value) ==
    Append(als, NewAlert(server_id, alert_type, severity, message,
                         actual_value, threshold_value))

create_alert(als, server_id, alert_type, severity, message, threshold_value, actual_value) ==
    Append(als, NewAlert(server_id, alert_type, severity, message,
                         threshold_value, actual_value))

\* Mutant: the host filter is dropped from the query.
get_active_alerts_unfiltered(als, server_id) ==
    {i \in 1..Len(als) : als[i].is_resolved = FALSE}

get_active_alerts(als, server_id) ==
    {i \in 1..Len(als) :
        /\ als[i].is_resolved = FALSE
        /\ (server_id # NoFilter => als[i].server_id = server_id)}

\* Mutant: the update sets the flag but not the timestamp.
resolve_alert_no_timestamp(als, alert_id, t) ==
    IF alert_id \in 1..Len(als)
    THEN [als EXCEPT ![alert_id].is_resolved = TRUE]
    ELSE als

resolve_alert(als, alert_id, t) ==
    IF alert_id \in 1..Len(als)
    THEN [als EXCEPT ![alert_id].is_resolved = TRUE,
                     ![alert_id].resolved_at = Some(t)]
    ELSE als

resolve_alert_updated(als, alert_id) == alert_id \in 1..Len(als)

update_webhook_status(als, alert_id, response_code) ==
    IF alert_id \in 1..Len(als)
    THEN [als EXCEPT ![alert_id].webhook_sent = TRUE,
                     ![alert_id].webhook_response_code = Some(response_code)]
    ELSE als

NoHealth == [exists |-> FALSE, status |-> "", connectivity_status |-> "",
             cpu_status |-> "", memory_status |-> "", disk_status |-> "",
             last_check |-> None, status_since |-> None]

\* Mutant: status_since is reset on every update.
update_health_status_reset_since(hs, server_id, status, cpu_status, memory_status, disk_status, connectivity_status, t) ==
    [hs EXCEPT ![server_id] =
        [exists |-> TRUE, status |-> status,
         connectivity_status |-> connectivity_status,
         cpu_status |-> cpu_status, memory_status |-> memory_status,
         disk_status |-> disk_status, last_check |-> Some(t),
         status_since |-> Some(t)]]

\* Mutant: connectivity_status is not passed on and keeps its default.
update_health_status_default_connectivity(hs, server_id, status, cpu_status, memory_status, disk_status, connectivity_status, t) ==
    [hs EXCEPT ![server_id] =
        [exists |-> TRUE, status |-> status,
         connectivity_status |-> "online",
         cpu_status |-> cpu_status, memory_status |-> memory_status,
         disk_status |-> disk_status, last_check |-> Some(t),
         status_since |-> IF hs[server_id].exists /\ hs[server_id].status = status
                          THEN hs[server_id].status_since
                          ELSE Some(t)]]

update_health_status(hs, server_id, status, cpu_status, memory_status, disk_status, connectivity_status, t) ==
    [hs EXCEPT ![server_id] =
        [exists |-> TRUE, status |-> status,
         connectivity_status |-> connectivity_status,
         cpu_status |-> cpu_status, memory_status |-> memory_status,
         disk_status |-> disk_status, last_check |-> Some(t),
         status_since |-> IF hs[server_id].exists /\ hs[server_id].status = status
                          THEN hs[server_id].status_since
                          ELSE Some(t)]]

update_last_seen(srv, server_id, t) ==
    [srv EXCEPT ![server_id].last_seen = t]

\* Mutant: the active_only filter is not applied.
get_all_servers_inactive_too(srv) == DOMAIN srv

get_all_servers(srv) == {h \in DOMAIN srv : srv[h].is_active}

(***************************************************************************)
(* Webhook notifier.                                                       *)
(***************************************************************************)
RECURSIVE SendAttempts(_, _, _, _, _)
\* The loop of _send_webhook from attempt number `attempt` (1-based) on.
\* Returns the storage, the boolean result, the number of POSTs made and
\* the response codes handed to update_webhook_status, in order.
SendAttempts(als, alert_id, script, attempt, acc) ==
    IF attempt > webhook_retry_attempts
    THEN [als |-> als, ok |-> FALSE, posts |-> acc.posts, recorded |-> acc.recorded]
    ELSE LET o == script[attempt]
             posted == [acc EXCEPT !.posts = @ + 1]
         IN IF o.raised
            THEN IF attempt = webhook_retry_attempts
                 THEN SendAttempts(update_webhook_status(als, alert_id, 0), alert_id,
                                   script, attempt + 1,
                                   [posted EXCEPT !.recorded = Append(@, 0)])
                 ELSE SendAttempts(als, alert_id, script, attempt + 1, posted)
            ELSE LET als2 == update_webhook_status(als, alert_id, o.status_code)
                     acc2 == [posted EXCEPT !.recorded = Append(@, o.status_code)]
                 IN IF o.status_code < 400
                    THEN [als |-> als2, ok |-> TRUE, posts |-> acc2.posts,
                          recorded |-> acc2.recorded]
                    ELSE SendAttempts(als2, alert_id, script, attempt + 1, acc2)

_send_webhook(als, webhook_url, alert_id, script) ==
    LET r == SendAttempts(als, alert_id, script, 1, [posts |-> 0, recorded |-> <<>>])
    IN [als |-> r.als,
        delivery |-> [alert_id |-> alert_id, url |-> webhook_url,
                      outcomes |-> SubSeq(script, 1, r.posts),
                      ok |-> r.ok, posts |-> r.posts, recorded |-> r.recorded]]

RECURSIVE _send_webhook_notifications(_, _, _, _, _)
\* Delivers one alert to urls[k..]; scripts[u] is what sink u answers.
_send_webhook_notifications(als, urls, k, alert_id, scripts) ==
    IF k > Len(urls)
    THEN [als |-> als, deliveries |-> <<>>]
    ELSE LET r == _send_webhook(als, urls[k], alert_id, scripts[urls[k]])
             rest == _send_webhook_notifications(r.als, urls, k + 1, alert_id, scripts)
         IN [als |-> rest.als, deliveries |-> <<r.delivery>> \o rest.deliveries]

\* Mutant: the alert's row is rolled back when a sink could not be reached.
_process_alert_rollback(als, urls, alert_id, scripts) ==
    IF urls # <<>>
    THEN LET r == _send_webhook_notifications(als, urls, 1, alert_id, scripts)
         IN IF \E k \in DOMAIN r.deliveries : ~r.deliveries[k].ok
            THEN [als |-> SubSeq(als, 1, alert_id - 1), deliveries |-> r.deliveries]
            ELSE r
    ELSE [als |-> als, deliveries |-> <<>>]

\* _log_alert, then the webhooks if any are configured, then commit.
_process_alert(als, urls, alert_id, scripts) ==
    IF urls # <<>>
    THEN _send_webhook_notifications(als, urls, 1, alert_id, scripts)
    ELSE [als |-> als, deliveries |-> <<>>]

RECURSIVE ProcessAll(_, _, _, _, _)
\* for alert in triggered_alerts: self._process_alert(alert)
ProcessAll(als, urls, ids, k, scripts) ==
    IF k > Len(ids)
    THEN [als |-> als, deliveries |-> <<>>]
    ELSE LET r == _process_alert(als, urls, ids[k], scripts)
             rest == ProcessAll(r.als, urls, ids, k + 1, scripts)
         IN [als |-> rest.als, deliveries |-> r.deliveries \o rest.deliveries]

(***************************************************************************)
(* Threshold rules.                                                        *)
(***************************************************************************)
\* Mutant: the type compared with is always 'cpu'.
HasOpen_cpu_only(als, server_id, alert_type) ==
    \E i \in get_active_alerts(als, server_id) : als[i].alert_type = "cpu"

HasOpen(als, server_id, alert_type) ==
    \E i \in get_active_alerts(als, server_id) : als[i].alert_type = alert_type

\* Mutant: no look at the open alerts before creating.
_check_cpu_threshold_no_dedup(als, metrics) ==
    IF metrics.cpu_usage > cpu_threshold
    THEN [als |-> create_alert(als, metrics.server_id, "cpu",
                               IF metrics.cpu_usage < cpu_critical
                               THEN "warning" ELSE "critical",
                               CpuMessage(metrics.server_id, metrics.cpu_usage),
                               cpu_threshold, metrics.cpu_usage),
          created |-> <<Len(als) + 1>>]
    ELSE [als |-> als, created |-> <<>>]

\* Mutant: the comparison with the threshold is inverted.
_check_cpu_threshold_inverted(als, metrics) ==
    IF metrics.cpu_usage < cpu_threshold /\ ~HasOpen(als, metrics.server_id, "cpu")
    THEN [als |-> create_alert(als, metrics.server_id, "cpu",
                               IF metrics.cpu_usage < cpu_critical
                               THEN "warning" ELSE "critical",
                               CpuMessage(metrics.server_id, metrics.cpu_usage),
                               cpu_threshold, metrics.cpu_usage),
          created |-> <<Len(als) + 1>>]
    ELSE [als |-> als, created |-> <<>>]

\* Mutant: only a value at or over the critical cut-off raises an alert.
_check_cpu_threshold_critical_only(als, metrics) ==
    IF metrics.cpu_usage >= cpu_critical /\ ~HasOpen(als, metrics.server_id, "cpu")
    THEN [als |-> create_alert(als, metrics.server_id, "cpu",
                               IF metrics.cpu_usage < cpu_critical
                               THEN "warning" ELSE "critical",
                               CpuMessage(metrics.server_id, metrics.cpu_usage),
                               cpu_threshold, metrics.cpu_usage),
          created |-> <<Len(als) + 1>>]
    ELSE [als |-> als, created |-> <<>>]

_check_cpu_threshold(als, metrics) ==
    IF metrics.cpu_usage > cpu_threshold /\ ~HasOpen(als, metrics.server_id, "cpu")
    THEN [als |-> create_alert(als, metrics.server_id, "cpu",
                               IF metrics.cpu_usage < cpu_critical
                               THEN "warning" ELSE "critical",
                               CpuMessage(metrics.server_id, metrics.cpu_usage),
                               cpu_threshold, metrics.cpu_usage),
          created |-> <<Len(als) + 1>>]
    ELSE [als |-> als, created |-> <<>>]

\* Keys of the dict existing_disk_alerts, built once before the loop.
existing_disk_alerts(als, server_id) ==
    {LastToken(als[i].message) :
        i \in {j \in get_active_alerts(als, server_id) : als[j].alert_type = "disk"}}

RECURSIVE DiskLoop(_, _, _, _)
DiskLoop(als, metrics, existing, k) ==
    IF k > Len(metrics.disk_usage)
    THEN [als |-> als, created |-> <<>>]
    ELSE LET disk == metrics.disk_usage[k]
             mountpoint_key == <<"(">> \o disk.mountpoint \o <<")">>
         IN IF disk.percentage > disk_threshold /\ mountpoint_key \notin existing
            THEN LET als2 == create_alert(als, metrics.server_id, "disk",
                                 IF disk.percentage < disk_critical
                                 THEN "warning" ELSE "critical",
                                 DiskMessage(metrics.server_id, disk.percentage,
                                             disk.mountpoint),
                                 disk_threshold, disk.percentage)
                     rest == DiskLoop(als2, metrics, existing, k + 1)
                 IN [als |-> rest.als, created |-> <<Len(als) + 1>> \o rest.created]
            ELSE DiskLoop(als, metrics, existing, k + 1)

_check_disk_thresholds(als, metrics) ==
    DiskLoop(als, metrics, existing_disk_alerts(als, metrics.server_id), 1)

\* Mutant: a sample back under the CPU threshold resolves the host's open
\* cpu alerts.
evaluate_metrics_auto_resolve(als, urls, metrics, scripts) ==
    LET c == _check_cpu_threshold(als, metrics)
        d == _check_disk_thresholds(c.als, metrics)
        triggered_alerts == c.created \o d.created
        p == ProcessAll(d.als, urls, triggered_alerts, 1, scripts)
    IN [als |-> IF metrics.cpu_usage > cpu_threshold
                THEN p.als
                ELSE [i \in DOMAIN p.als |->
                        IF /\ p.als[i].server_id = metrics.server_id
                           /\ p.als[i].alert_type = "cpu"
                        THEN [p.als[i] EXCEPT !.is_resolved = TRUE,
                                              !.resolved_at = Some(0)]
                        ELSE p.als[i]],
        result |-> triggered_alerts, deliveries |-> p.deliveries]

evaluate_metrics(als, urls, metrics, scripts) ==
    LET c == _check_cpu_threshold(als, metrics)
        d == _check_disk_thresholds(c.als, metrics)
        triggered_alerts == c.created \o d.created
        p == ProcessAll(d.als, urls, triggered_alerts, 1, scripts)
    IN [als |-> p.als, result |-> triggered_alerts, deliveries |-> p.deliveries]

(***************************************************************************)
(* Offline sweep.                                                          *)
(***************************************************************************)
RECURSIVE OfflineLoop(_, _, _, _, _, _, _)
\* for server in servers: ... over the servers not yet visited (todo).
OfflineLoop(srv, als, hs, urls, todo, t, scripts) ==
    IF todo = {}
    THEN [als |-> als, health |-> hs, result |-> <<>>, deliveries |-> <<>>]
    ELSE LET server_id == CHOOSE h \in todo : TRUE
             age == t - srv[server_id].last_seen
         IN IF age > offline_timeout /\ ~HasOpen(als, server_id, "offline")
            THEN LET als2 == create_alert(als, server_id, "offline", "critical",
                                 OfflineMessage(server_id, age \div 60),
                                 offline_timeout, age)
                     id == Len(als) + 1
                     p == _process_alert(als2, urls, id, scripts)
                     hs2 == update_health_status(hs, server_id, "down", "normal",
                                "normal", "normal", "offline", t)
                     rest == OfflineLoop(srv, p.als, hs2, urls,
                                         todo \ {server_id}, t, scripts)
                 IN [als |-> rest.als, health |-> rest.health,
                     result |-> <<id>> \o rest.result,
                     deliveries |-> p.deliveries \o rest.deliveries]
            ELSE OfflineLoop(srv, als, hs, urls, todo \ {server_id}, t, scripts)

check_offline_servers(srv, als, hs, urls, t, scripts) ==
    OfflineLoop(srv, als, hs, urls, get_all_servers(srv), t, scripts)

(***************************************************************************)
(* Resolution.                                                             *)
(***************************************************************************)
\* alert_types is None (resolve all) or a list of types.
NoTypes == [given |-> FALSE, types |-> {}]
TypeFilters == {NoTypes} \cup [given : {TRUE}, types : SUBSET AlertTypes]

Matching(als, server_id, alert_types) ==
    {i \in get_active_alerts(als, server_id) :
        alert_types.given => als[i].alert_type \in alert_types.types}

RECURSIVE ResolveLoop(_, _, _)
ResolveLoop(als, todo, t) ==
    IF todo = {}
    THEN [als |-> als, resolved_count |-> 0]
    ELSE LET id == CHOOSE i \in todo : TRUE
             rest == ResolveLoop(resolve_alert(als, id, t), todo \ {id}, t)
         IN [als |-> rest.als,
             resolved_count |-> rest.resolved_count +
                                (IF resolve_alert_updated(als, id) THEN 1 ELSE 0)]

resolve_alerts_for_server(als, server_id, alert_types, t) ==
    ResolveLoop(als, Matching(als, server_id, alert_types), t)

(***************************************************************************)
(* State machine: one engine over one session, calls run to completion.    *)
(***************************************************************************)
NoSample == [server_id |-> "", cpu_usage |-> 0, disk_usage |-> <<>>]

\* The last completed call: its name, the host it was about, the alert ids
\* or the count it returned, the sink deliveries it made, and whether it
\* ended in an exception.
NoCall == [op |-> "init", server_id |-> "", result |-> <<>>, count |-> 0,
           deliveries |-> <<>>, raised |-> FALSE]

\* A concurrent caller: where it is in its call, its sample, the hosts its
\* sweep has still to visit, and the rows it has flushed but not committed.
Idle == [pc |-> "idle", metrics |-> NoSample, todo |-> {}, pending |-> <<>>]

Workers == {1, 2}

\* The notifier's position inside _process_alert: the alerts still to
\* process, the index of the sink being contacted, the attempts already
\* made on it, what the sink last answered, and the sinks done so far for
\* the current alert; what the session has done for the alert in hand, in
\* order (the level of its log line, "post" per HTTP call, "commit"), and
\* the number of rows of the alerts table that are committed.
NoSend == [pc |-> "idle", todo |-> <<>>, k |-> 0, attempt |-> 0, last |-> None,
           deliveries |-> <<>>, result |-> <<>>, events |-> <<>>, durable |-> 0]

\* The agent's transmitter inside send_with_exponential_backoff: the
\* arguments and settings of the call, the loop bound it computed, the
\* loop index, what each send_metrics call returned, the delays slept so
\* far and the value returned.
NoTransmission ==
    [pc |-> "idle", max_attempts |-> None, max_retries |-> 0,
     backoff_factor |-> 0, attempts |-> 0, attempt |-> 0, sent |-> <<>>,
     slept |-> <<>>, result |-> None, data |-> None, answers |-> <<>>,
     stored |-> 0]

\* The agent service: its fields, the collection threads it has started
\* (their position in _collection_loop), the collections begun, whether
\* one of them failed, whether stop() is waiting in join, and how the last
\* call of start() or stop() ended.
MaxThreads == 2
NoAgent ==
    [_running |-> FALSE, _collection_thread |-> 0, _shutdown_event |-> FALSE,
     threads |-> [i \in 1..MaxThreads |-> "unborn"], collections |-> 0,
     failed |-> FALSE, joining |-> FALSE, last |-> "init"]

\* The clients of the API, by address.
ClientIPs == {"ip1", "ip2"}

\* What the clients have seen of the security middleware: per address the
\* requests answered 400 for malicious content and when the
\* max_failed_attempts-th of them was answered, and the last request
\* handled (its address, its answer, the rejections before it).
NoSecurity ==
    [rejected |-> [ip \in ClientIPs |-> 0],
     rejected_at |-> [ip \in ClientIPs |-> None],
     last |-> None]

Init ==
    /\ servers = [h \in Hosts |-> [last_seen |-> 0, is_active |-> TRUE]]
    /\ alerts = <<>>
    /\ health = [h \in Hosts |-> NoHealth]
    /\ now = 0
    /\ webhook_urls = <<>>
    /\ ret = NoCall
    /\ workers = [w \in Workers |-> Idle]
    /\ metrics_table = [h \in Hosts |-> None]
    /\ sender = NoSend
    /\ transmitter = NoTransmission
    /\ agent = NoAgent
    /\ security = NoSecurity

Range(f) == {f[i] : i \in DOMAIN f}

\* The scripts are only consulted when a POST is made.
ScriptChoices(urls, created) ==
    IF urls = <<>> \/ created = <<>>
    THEN {[u \in Range(urls) |-> [k \in 1..webhook_retry_attempts |->
                               [raised |-> FALSE, status_code |-> 200]]]}
    ELSE [Range(urls) -> Scripts]

EvaluateMetrics ==
    \E metrics \in Samples :
      LET dry == _check_disk_thresholds(_check_cpu_threshold(alerts, metrics).als, metrics)
          created == _check_cpu_threshold(alerts, metrics).created \o dry.created
      IN /\ Len(dry.als) <= MaxAlerts
         /\ \E scripts \in ScriptChoices(webhook_urls, created) :
              LET r == evaluate_metrics(alerts, webhook_urls, metrics, scripts)
              IN /\ alerts' = r.als
                 /\ ret' = [NoCall EXCEPT !.op = "evaluate_metrics",
                                          !.server_id = metrics.server_id,
                                          !.result = r.result,
                                          !.deliveries = r.deliveries]
                 /\ UNCHANGED <<security, transmitter, agent, servers, health, now, webhook_urls, metrics_table, sender, workers>>

\* Would the sweep create an alert?  (Only then are sinks contacted.)
StaleUnalerted(srv, als, t) ==
    {h \in get_all_servers(srv) :
        t - srv[h].last_seen > offline_timeout /\ ~HasOpen(als, h, "offline")}

CheckOfflineServers ==
    LET stale == StaleUnalerted(servers, alerts, now)
    IN /\ Len(alerts) + Cardinality(stale) <= MaxAlerts
       /\ \E scripts \in ScriptChoices(webhook_urls, IF stale = {} THEN <<>> ELSE <<0>>) :
            LET r == check_offline_servers(servers, alerts, health, webhook_urls,
                                           now, scripts)
            IN /\ alerts' = r.als
               /\ health' = r.health
               /\ ret' = [NoCall EXCEPT !.op = "check_offline_servers",
                                        !.result = r.result,
                                        !.deliveries = r.deliveries]
               /\ UNCHANGED <<security, transmitter, agent, servers, now, webhook_urls, metrics_table, sender, workers>>

ResolveAlertsForServer ==
    \E server_id \in Hosts, alert_types \in TypeFilters :
      LET r == resolve_alerts_for_server(alerts, server_id, alert_types, now)
      IN /\ alerts' = r.als
         /\ ret' = [NoCall EXCEPT !.op = "resolve_alerts_for_server",
                                  !.server_id = server_id,
                                  !.count = r.resolved_count]
         /\ UNCHANGED <<security, transmitter, agent, servers, health, now, webhook_urls, metrics_table, sender, workers>>

\* AlertOperations.resolve_alert called directly with any id.
ResolveAlert ==
    \E alert_id \in 1..MaxAlerts :
      /\ alerts' = resolve_alert(alerts, alert_id, now)
      /\ ret' = [NoCall EXCEPT !.op = "resolve_alert",
                               !.count = IF resolve_alert_updated(alerts, alert_id)
                                         THEN 1 ELSE 0]
      /\ UNCHANGED <<security, transmitter, agent, servers, health, now, webhook_urls, metrics_table, sender, workers>>

\* A host reports in: ServerOperations.update_last_seen.
UpdateLastSeen ==
    \E server_id \in Hosts :
      /\ servers[server_id].last_seen # now
      /\ servers' = update_last_seen(servers, server_id, now)
      /\ ret' = [NoCall EXCEPT !.op = "update_last_seen", !.server_id = server_id]
      /\ UNCHANGED <<security, transmitter, agent, alerts, health, now, webhook_urls, metrics_table, sender, workers>>

\* Time passes, one offline timeout at a time.
Tick ==
    /\ now < MaxTicks * offline_timeout
    /\ now' = now + offline_timeout
    /\ ret' = [NoCall EXCEPT !.op = "tick"]
    /\ UNCHANGED <<security, transmitter, agent, servers, alerts, health, webhook_urls, metrics_table, sender, workers>>

Next ==
    \/ EvaluateMetrics
    \/ CheckOfflineServers
    \/ ResolveAlertsForServer
    \/ ResolveAlert
    \/ UpdateLastSeen
    \/ Tick

Spec == Init /\ [][Next]_vars

\* Threshold evaluation and resolution alone.
NextEval ==
    \/ EvaluateMetrics
    \/ ResolveAlertsForServer
    \/ ResolveAlert

SpecEval == Init /\ [][NextEval]_vars

\* The offline sweep with liveness updates, resolution and the clock.
NextSweep ==
    \/ CheckOfflineServers
    \/ UpdateLastSeen
    \/ ResolveAlertsForServer
    \/ Tick

SpecSweep == Init /\ [][NextSweep]_vars

(***************************************************************************)
(* The same engine constructed with a webhook sink.                     *)
(***************************************************************************)
InitNotify ==
    /\ servers = [h \in Hosts |-> [last_seen |-> 0, is_active |-> TRUE]]
    /\ alerts = <<>>
    /\ health = [h \in Hosts |-> NoHealth]
    /\ now = 0
    /\ webhook_urls = <<"u1">>
    /\ ret = NoCall
    /\ workers = [w \in Workers |-> Idle]
    /\ metrics_table = [h \in Hosts |-> None]
    /\ sender = NoSend
    /\ transmitter = NoTransmission
    /\ agent = NoAgent
    /\ security = NoSecurity

NextNotify ==
    \/ EvaluateMetrics
    \/ CheckOfflineServers
    \/ Tick

SpecNotify == InitNotify /\ [][NextNotify]_vars

(***************************************************************************)
(* Two callers, each with its own session on the same PostgreSQL database  *)
(* (read committed): a session reads the committed rows and its own        *)
(* flushed rows; its rows become visible to the other at session.commit(). *)
(* The steps are the storage round trips of evaluate_metrics and           *)
(* check_offline_servers.                                                  *)
(***************************************************************************)
\* The rows a session sees.
View(w) == alerts \o workers[w].pending

Flushed(w, als) == SubSeq(als, Len(alerts) + 1, Len(als))

\* Samples that exceed the CPU threshold.
ExceedingSamples == {m \in Samples : m.cpu_usage > cpu_threshold}

BeginEvaluate(w) ==
    /\ workers[w].pc = "idle"
    /\ \E metrics \in ExceedingSamples :
         workers' = [workers EXCEPT ![w] = [Idle EXCEPT !.pc = "cpu", !.metrics = metrics]]
    /\ UNCHANGED <<security, transmitter, agent, servers, alerts, health, now, webhook_urls, metrics_table, sender, ret>>

\* _check_cpu_threshold: get_active_alerts, then create_alert (flush).
EvaluateCpu(w) ==
    /\ workers[w].pc = "cpu"
    /\ LET r == _check_cpu_threshold(View(w), workers[w].metrics)
       IN workers' = [workers EXCEPT ![w].pc = "disk", ![w].pending = Flushed(w, r.als)]
    /\ UNCHANGED <<security, transmitter, agent, servers, alerts, health, now, webhook_urls, metrics_table, sender, ret>>

\* _check_disk_thresholds: get_active_alerts, then create_alert per disk.
EvaluateDisk(w) ==
    /\ workers[w].pc = "disk"
    /\ LET r == _check_disk_thresholds(View(w), workers[w].metrics)
       IN workers' = [workers EXCEPT ![w].pc = "process", ![w].pending = Flushed(w, r.als)]
    /\ UNCHANGED <<security, transmitter, agent, servers, alerts, health, now, webhook_urls, metrics_table, sender, ret>>

\* _process_alert for each triggered alert: session.commit(), and return.
EvaluateProcess(w) ==
    /\ workers[w].pc = "process"
    /\ Len(View(w)) <= MaxAlerts
    /\ alerts' = View(w)
    /\ ret' = [NoCall EXCEPT !.op = "evaluate_metrics",
                             !.result = [k \in 1..Len(workers[w].pending) |->
                                            Len(alerts) + k]]
    /\ workers' = [workers EXCEPT ![w] = Idle]
    /\ UNCHANGED <<security, transmitter, agent, servers, health, now, webhook_urls, metrics_table, sender>>

\* get_all_servers(active_only=True)
BeginSweep(w) ==
    /\ workers[w].pc = "idle"
    /\ workers' = [workers EXCEPT ![w] = [Idle EXCEPT !.pc = "sweep",
                                                      !.todo = get_all_servers(servers)]]
    /\ UNCHANGED <<security, transmitter, agent, servers, alerts, health, now, webhook_urls, metrics_table, sender, ret>>

\* One iteration of the loop up to create_alert (flush).
SweepVisit(w) ==
    /\ workers[w].pc = "sweep"
    /\ workers[w].todo # {}
    /\ LET server_id == CHOOSE h \in workers[w].todo : TRUE
           age == now - servers[server_id].last_seen
       IN IF age > offline_timeout /\ ~HasOpen(View(w), server_id, "offline")
          THEN workers' = [workers EXCEPT
                   ![w].pc = "sweep_process",
                   ![w].pending = <<NewAlert(server_id, "offline", "critical",
                                       OfflineMessage(server_id, age \div 60),
                                       offline_timeout, age)>>]
          ELSE workers' = [workers EXCEPT ![w].todo = @ \ {server_id}]
    /\ UNCHANGED <<security, transmitter, agent, servers, alerts, health, now, webhook_urls, metrics_table, sender, ret>>

\* _process_alert (commit) and update_health_status for the visited host.
SweepProcess(w) ==
    /\ workers[w].pc = "sweep_process"
    /\ Len(View(w)) <= MaxAlerts
    /\ LET server_id == CHOOSE h \in workers[w].todo : TRUE
       IN /\ alerts' = View(w)
          /\ health' = update_health_status(health, server_id, "down", "normal",
                                            "normal", "normal", "offline", now)
          /\ workers' = [workers EXCEPT ![w].pc = "sweep", ![w].pending = <<>>,
                                        ![w].todo = @ \ {server_id}]
    /\ UNCHANGED <<security, transmitter, agent, servers, now, webhook_urls, metrics_table, sender, ret>>

SweepReturn(w) ==
    /\ workers[w].pc = "sweep"
    /\ workers[w].todo = {}
    /\ workers' = [workers EXCEPT ![w] = Idle]
    /\ ret' = [NoCall EXCEPT !.op = "check_offline_servers"]
    /\ UNCHANGED <<security, transmitter, agent, servers, alerts, health, now, webhook_urls, metrics_table, sender>>

ClockTick ==
    /\ now < MaxTicks * offline_timeout
    /\ now' = now + offline_timeout
    /\ UNCHANGED <<security, transmitter, agent, servers, alerts, health, webhook_urls, metrics_table, sender, ret, workers>>

NextConc ==
    \/ \E w \in Workers : BeginEvaluate(w)
    \/ \E w \in Workers : EvaluateCpu(w)
    \/ \E w \in Workers : EvaluateDisk(w)
    \/ \E w \in Workers : EvaluateProcess(w)
    \/ \E w \in Workers : BeginSweep(w)
    \/ \E w \in Workers : SweepVisit(w)
    \/ \E w \in Workers : SweepProcess(w)
    \/ \E w \in Workers : SweepReturn(w)
    \/ ClockTick

SpecConc == Init /\ [][NextConc]_vars

(***************************************************************************)
(* The notifier step by step: an engine with two sinks, one step per POST  *)
(* of _send_webhook, one per session.commit() of _process_alert.           *)
(***************************************************************************)
InitSend ==
    /\ servers = [h \in Hosts |-> [last_seen |-> 0, is_active |-> TRUE]]
    /\ alerts = <<>>
    /\ health = [h \in Hosts |-> NoHealth]
    /\ now = 0
    /\ webhook_urls = <<"u1", "u2">>
    /\ ret = NoCall
    /\ workers = [w \in Workers |-> Idle]
    /\ metrics_table = [h \in Hosts |-> None]
    /\ sender = NoSend
    /\ transmitter = NoTransmission
    /\ agent = NoAgent
    /\ security = NoSecurity

\* Mutant: any response, whatever its status, counts as delivered.
AttemptSucceeded_any_response(o) == ~o.raised

\* if response.status_code < 400: return True
AttemptSucceeded(o) == ~o.raised /\ o.status_code < 400

\* Mutant: the loop over the sinks stops at the first sink that failed.
AfterSink_stop_on_failure(urls, k, ok) ==
    IF k < Len(urls) /\ ok THEN "post" ELSE "commit"

\* for webhook_url in self.webhook_urls: the next sink, whatever
\* _send_webhook returned for this one; after the last, the commit.
AfterSink(urls, k, ok) == IF k < Len(urls) THEN "post" ELSE "commit"

\* evaluate_metrics up to its loop over triggered_alerts: the rules have
\* run and the new alerts are flushed.
BeginProcess ==
    /\ sender.pc = "idle"
    /\ \E metrics \in Samples :
         LET c == _check_cpu_threshold(alerts, metrics)
             d == _check_disk_thresholds(c.als, metrics)
             triggered_alerts == c.created \o d.created
         IN /\ triggered_alerts # <<>>
            /\ Len(d.als) <= MaxAlerts
            /\ alerts' = d.als
            /\ sender' = [NoSend EXCEPT !.pc = "log", !.todo = triggered_alerts,
                                        !.k = 1, !.result = triggered_alerts,
                                        !.durable = sender.durable]
            /\ ret' = [NoCall EXCEPT !.op = "_process_alert",
                                     !.server_id = metrics.server_id]
    /\ UNCHANGED <<security, transmitter, agent, servers, health, now, webhook_urls, workers, metrics_table>>

\* Mutant: every alert is logged as a warning.
_log_alert_warning_only(alert) == "WARNING"

\* The level _log_alert logs the alert at.
_log_alert(alert) == IF alert.severity = "critical" THEN "CRITICAL" ELSE "WARNING"

\* _process_alert up to its test of self.webhook_urls: the alert is logged.
LogAlert ==
    /\ sender.pc = "log"
    /\ sender' = [sender EXCEPT
                    !.pc = IF webhook_urls # <<>> THEN "post" ELSE "commit",
                    !.events = <<_log_alert(alerts[sender.todo[1]])>>]
    /\ UNCHANGED <<security, transmitter, agent, servers, alerts, health, now, webhook_urls, ret, workers, metrics_table>>

\* One iteration of the loop of _send_webhook: requests.post answers o.
PostAttempt ==
    /\ sender.pc = "post"
    /\ \E o \in Outcomes :
         LET alert_id == sender.todo[1]
             ok == AttemptSucceeded(o)
             last_attempt == sender.attempt = webhook_retry_attempts - 1
         IN /\ alerts' = IF ~o.raised
                         THEN update_webhook_status(alerts, alert_id, o.status_code)
                         ELSE IF last_attempt
                              THEN update_webhook_status(alerts, alert_id, 0)
                              ELSE alerts
            /\ sender' = IF ok \/ last_attempt
                         THEN [sender EXCEPT
                                 !.pc = AfterSink(webhook_urls, sender.k, ok),
                                 !.k = @ + 1, !.attempt = 0, !.last = Some(o),
                                 !.events = Append(@, "post"),
                                 !.deliveries = Append(@,
                                     [url |-> webhook_urls[sender.k], ok |-> ok,
                                      posts |-> sender.attempt + 1])]
                         ELSE [sender EXCEPT !.attempt = @ + 1, !.last = Some(o),
                                             !.events = Append(@, "post")]
    /\ UNCHANGED <<security, transmitter, agent, servers, health, now, webhook_urls, ret, workers, metrics_table>>

\* self.session.commit() at the end of _process_alert, then the next
\* triggered alert or the return of evaluate_metrics.
CommitAlert ==
    /\ sender.pc = "commit"
    /\ IF Len(sender.todo) > 1
       THEN /\ sender' = [sender EXCEPT !.pc = "log", !.todo = Tail(@), !.k = 1,
                                        !.attempt = 0, !.last = None,
                                        !.deliveries = <<>>,
                                        !.events = Append(@, "commit"),
                                        !.durable = Len(alerts)]
            /\ ret' = ret
       ELSE /\ sender' = [NoSend EXCEPT !.events = Append(sender.events, "commit"),
                                        !.durable = Len(alerts)]
            /\ ret' = [NoCall EXCEPT !.op = "evaluate_metrics",
                                     !.server_id = ret.server_id,
                                     !.result = sender.result]
    /\ UNCHANGED <<security, transmitter, agent, servers, alerts, health, now, webhook_urls, workers, metrics_table>>

NextSend ==
    \/ BeginProcess
    \/ LogAlert
    \/ PostAttempt
    \/ CommitAlert

SpecSend == InitSend /\ [][NextSend]_vars

\* requests.post returns or raises within webhook_timeout, and the engine
\* runs each call to its end.
SpecSendFair ==
    SpecSend /\ WF_vars(LogAlert) /\ WF_vars(PostAttempt) /\ WF_vars(CommitAlert)

\* The same engine with no sink or one sink configured.
InitProcess ==
    /\ servers = [h \in Hosts |-> [last_seen |-> 0, is_active |-> TRUE]]
    /\ alerts = <<>>
    /\ health = [h \in Hosts |-> NoHealth]
    /\ now = 0
    /\ webhook_urls \in {<<>>, <<"u1">>}
    /\ ret = NoCall
    /\ workers = [w \in Workers |-> Idle]
    /\ metrics_table = [h \in Hosts |-> None]
    /\ sender = NoSend
    /\ transmitter = NoTransmission
    /\ agent = NoAgent
    /\ security = NoSecurity

SpecProcess == InitProcess /\ [][NextSend]_vars

(***************************************************************************)
(* Health classification (src/server/health/manager.py) over the same      *)
(* storage.  metrics_table[h] is the row get_latest_metrics returns for h. *)
(***************************************************************************)
\* Defaults of HealthThresholds.
cpu_warning_threshold == 80
cpu_critical_threshold == 90
memory_warning_threshold == 80
memory_critical_threshold == 90
disk_warning_threshold == 70
disk_critical_threshold == 80
offline_timeout_minutes == 5

\* Stored samples: all normal; CPU critical and memory warning without
\* filesystems; two filesystems of which the second is over the disk
\* warning threshold, with a failed service.
HealthSamples ==
    {[cpu_usage |-> 50, memory_percentage |-> 60,
      disk_usage |-> <<[percentage |-> 40]>>, failed_services |-> <<>>],
     [cpu_usage |-> 90, memory_percentage |-> 80,
      disk_usage |-> <<>>, failed_services |-> <<>>],
     [cpu_usage |-> 50, memory_percentage |-> 60,
      disk_usage |-> <<[percentage |-> 40], [percentage |-> 70]>>,
      failed_services |-> <<"nginx">>]}

\* A host id no servers row exists for.
Unregistered == "h0"

\* Mutant: an age equal to the timeout already counts as offline.
_evaluate_connectivity_strict(last_seen, t) ==
    IF last_seen = None
    THEN "offline"
    ELSE IF t - last_seen[1] < offline_timeout_minutes * 60
         THEN "online" ELSE "offline"

\* last_seen is None or Some(time).
_evaluate_connectivity(last_seen, t) ==
    IF last_seen = None
    THEN "offline"
    ELSE IF t - last_seen[1] <= offline_timeout_minutes * 60
         THEN "online" ELSE "offline"

\* Mutant: the thresholds are exclusive.
_evaluate_cpu_health_exclusive(cpu_usage) ==
    IF cpu_usage > cpu_critical_threshold THEN <<"critical", "critical">>
    ELSE IF cpu_usage > cpu_warning_threshold THEN <<"warning", "warning">>
    ELSE <<"normal", "none">>

\* Each returns <<status, severity>>.
_evaluate_cpu_health(cpu_usage) ==
    IF cpu_usage >= cpu_critical_threshold THEN <<"critical", "critical">>
    ELSE IF cpu_usage >= cpu_warning_threshold THEN <<"warning", "warning">>
    ELSE <<"normal", "none">>

_evaluate_memory_health(memory_percentage) ==
    IF memory_percentage >= memory_critical_threshold THEN <<"critical", "critical">>
    ELSE IF memory_percentage >= memory_warning_threshold THEN <<"warning", "warning">>
    ELSE <<"normal", "none">>

RECURSIVE MaxPercentage(_)
\* max(disk.get('percentage', 0) for disk in disk_usage_list), list not empty.
MaxPercentage(disk_usage_list) ==
    IF Len(disk_usage_list) = 1
    THEN disk_usage_list[1].percentage
    ELSE LET m == MaxPercentage(Tail(disk_usage_list))
         IN IF disk_usage_list[1].percentage >= m
            THEN disk_usage_list[1].percentage ELSE m

_evaluate_disk_health(disk_usage_list) ==
    IF disk_usage_list = <<>>
    THEN <<"normal", "none">>
    ELSE LET max_disk_usage == MaxPercentage(disk_usage_list)
         IN IF max_disk_usage >= disk_critical_threshold
            THEN <<"critical", "critical">>
            ELSE IF max_disk_usage >= disk_warning_threshold
                 THEN <<"warning", "warning">>
                 ELSE <<"normal", "none">>

\* Mutant: a critical component makes the host down.
_determine_overall_status_critical_down(cpu_severity, memory_severity, disk_severity, has_failed_services) ==
    LET severities == {cpu_severity, memory_severity, disk_severity}
    IN IF "critical" \in severities THEN "down"
       ELSE IF "warning" \in severities \/ has_failed_services THEN "warning"
       ELSE "healthy"

\* Mutant: failed services are not looked at.
_determine_overall_status_ignore_services(cpu_severity, memory_severity, disk_severity, has_failed_services) ==
    LET severities == {cpu_severity, memory_severity, disk_severity}
    IN IF "critical" \in severities THEN "warning"
       ELSE IF "warning" \in severities THEN "warning"
       ELSE "healthy"

_determine_overall_status(cpu_severity, memory_severity, disk_severity, has_failed_services) ==
    LET severities == {cpu_severity, memory_severity, disk_severity}
    IN IF "critical" \in severities THEN "warning"
       ELSE IF "warning" \in severities \/ has_failed_services THEN "warning"
       ELSE "healthy"

\* Mutant: an online host without a sample is healthy.
evaluate_server_health_no_sample_healthy(srv, mt, hs, server_id, t) ==
    IF server_id \notin DOMAIN srv
    THEN [health |-> hs, result |-> "down", fetched |-> FALSE]
    ELSE IF _evaluate_connectivity(Some(srv[server_id].last_seen), t) = "offline"
         THEN [health |-> update_health_status(hs, server_id, "down", "normal",
                              "normal", "normal", "offline", t),
               result |-> "down", fetched |-> FALSE]
         ELSE IF mt[server_id] = None
              THEN [health |-> update_health_status(hs, server_id, "healthy",
                                   "normal", "normal", "normal", "online", t),
                    result |-> "healthy", fetched |-> TRUE]
              ELSE LET metric == mt[server_id][1]
                       cpu == _evaluate_cpu_health(metric.cpu_usage)
                       memory == _evaluate_memory_health(metric.memory_percentage)
                       disk == _evaluate_disk_health(metric.disk_usage)
                       overall_status ==
                           _determine_overall_status(cpu[2], memory[2], disk[2],
                               Len(metric.failed_services) > 0)
                   IN [health |-> update_health_status(hs, server_id,
                                      overall_status, cpu[1], memory[1], disk[1],
                                      "online", t),
                       result |-> overall_status, fetched |-> TRUE]

\* Returns the health table, the returned status and whether the latest
\* sample was fetched.
evaluate_server_health(srv, mt, hs, server_id, t) ==
    IF server_id \notin DOMAIN srv
    THEN [health |-> hs, result |-> "down", fetched |-> FALSE]
    ELSE LET connectivity_status ==
                 _evaluate_connectivity(Some(srv[server_id].last_seen), t)
         IN IF connectivity_status = "offline"
            THEN [health |-> update_health_status(hs, server_id, "down", "normal",
                                 "normal", "normal", "offline", t),
                  result |-> "down", fetched |-> FALSE]
            ELSE IF mt[server_id] = None
                 THEN [health |-> update_health_status(hs, server_id, "warning",
                                      "normal", "normal", "normal", "online", t),
                       result |-> "warning", fetched |-> TRUE]
                 ELSE LET metric == mt[server_id][1]
                          cpu == _evaluate_cpu_health(metric.cpu_usage)
                          memory == _evaluate_memory_health(metric.memory_percentage)
                          disk == _evaluate_disk_health(metric.disk_usage)
                          overall_status ==
                              _determine_overall_status(cpu[2], memory[2], disk[2],
                                  Len(metric.failed_services) > 0)
                      IN [health |-> update_health_status(hs, server_id,
                                         overall_status, cpu[1], memory[1], disk[1],
                                         "online", t),
                          result |-> overall_status, fetched |-> TRUE]

\* MetricOperations.store_metrics: the sample becomes the host's latest
\* row and last_seen is updated.
StoreMetrics ==
    \E server_id \in Hosts, metric \in HealthSamples :
      /\ metrics_table' = [metrics_table EXCEPT ![server_id] = Some(metric)]
      /\ servers' = update_last_seen(servers, server_id, now)
      /\ ret' = [NoCall EXCEPT !.op = "store_metrics", !.server_id = server_id]
      /\ UNCHANGED <<security, transmitter, agent, alerts, health, now, webhook_urls, workers, sender>>

EvaluateServerHealth ==
    \E server_id \in Hosts \cup {Unregistered} :
      LET r == evaluate_server_health(servers, metrics_table, health, server_id, now)
      IN /\ health' = r.health
         /\ ret' = [NoCall EXCEPT !.op = "evaluate_server_health",
                                  !.server_id = server_id,
                                  !.result = <<r.result>>,
                                  !.count = IF r.fetched THEN 1 ELSE 0]
         /\ UNCHANGED <<security, transmitter, agent, servers, alerts, now, webhook_urls, workers,
                        metrics_table, sender>>

NextHealth ==
    \/ StoreMetrics
    \/ EvaluateServerHealth
    \/ CheckOfflineServers
    \/ Tick

SpecHealth == Init /\ [][NextHealth]_vars

(***************************************************************************)
(* The commit of _process_alert fails, or the process stops before it:     *)
(* the session's transaction is rolled back.                               *)
(***************************************************************************)
\* What storage holds once the open transaction is gone: the rows that
\* were committed.
rollback(als, durable) == SubSeq(als, 1, durable)

CommitFails ==
    /\ sender.pc = "commit"
    /\ alerts' = rollback(alerts, sender.durable)
    /\ sender' = [NoSend EXCEPT !.durable = sender.durable]
    /\ ret' = [NoCall EXCEPT !.op = "_process_alert",
                             !.server_id = ret.server_id,
                             !.result = <<sender.todo[1]>>,
                             !.deliveries = sender.deliveries,
                             !.raised = TRUE]
    /\ UNCHANGED <<security, transmitter, agent, servers, health, now, webhook_urls,
                   workers, metrics_table>>

NextCrash ==
    \/ BeginProcess
    \/ LogAlert
    \/ PostAttempt
    \/ CommitAlert
    \/ CommitFails

SpecCrash == InitProcess /\ [][NextCrash]_vars

(***************************************************************************)
(* Storage failures: one call of AlertOperations.get_active_alerts or      *)
(* create_alert raises.  Neither the engine nor its helpers catch it.      *)
(***************************************************************************)
\* The call that raises: in evaluate_metrics the read or the insert of the
\* CPU rule or of the disk rule, in the sweep those made for one host.
EvaluateFaults == [op : {"get_active_alerts", "create_alert"}, at : {"cpu", "disk"}]
SweepFaults == [op : {"get_active_alerts", "create_alert"}, at : Hosts]

\* Mutant: the exception is caught and an empty list returned.
evaluate_metrics_failing_swallowed(als, urls, metrics, scripts, fault) ==
    LET c == _check_cpu_threshold(als, metrics)
        d == _check_disk_thresholds(c.als, metrics)
        raises ==
            \/ /\ fault.at = "cpu"
               /\ metrics.cpu_usage > cpu_threshold
               /\ fault.op = "create_alert" => c.created # <<>>
            \/ /\ fault.at = "disk"
               /\ fault.op = "create_alert" => d.created # <<>>
        r == evaluate_metrics(als, urls, metrics, scripts)
    IN IF raises
       THEN [als |-> als, result |-> <<>>, deliveries |-> <<>>, raised |-> FALSE]
       ELSE [als |-> r.als, result |-> r.result, deliveries |-> r.deliveries,
             raised |-> FALSE]

\* evaluate_metrics when the call named by fault raises: the CPU rule
\* reads the open alerts only above the threshold and inserts only when
\* none is open; the disk rule always reads, and inserts for a filesystem
\* it found no alert for.  The exception leaves evaluate_metrics before
\* any alert is processed; what the session had flushed is never committed.
evaluate_metrics_failing(als, urls, metrics, scripts, fault) ==
    LET c == _check_cpu_threshold(als, metrics)
        d == _check_disk_thresholds(c.als, metrics)
        raises ==
            \/ /\ fault.at = "cpu"
               /\ metrics.cpu_usage > cpu_threshold
               /\ fault.op = "create_alert" => c.created # <<>>
            \/ /\ fault.at = "disk"
               /\ fault.op = "create_alert" => d.created # <<>>
        r == evaluate_metrics(als, urls, metrics, scripts)
    IN IF raises
       THEN [als |-> als, result |-> <<>>, deliveries |-> <<>>, raised |-> TRUE]
       ELSE [als |-> r.als, result |-> r.result, deliveries |-> r.deliveries,
             raised |-> FALSE]

RECURSIVE OfflineLoopFailing(_, _, _, _, _, _, _, _, _)
\* The loop of check_offline_servers when the call named by fault raises.
\* committed is what the last session.commit() made durable: the
\* exception leaves the loop at once, and the rows flushed since are lost.
OfflineLoopFailing(srv, als, hs, urls, todo, t, scripts, fault, committed) ==
    IF todo = {}
    THEN [als |-> als, health |-> hs, result |-> <<>>, deliveries |-> <<>>,
          raised |-> FALSE]
    ELSE LET server_id == CHOOSE h \in todo : TRUE
             age == t - srv[server_id].last_seen
             failed == [als |-> committed.als, health |-> committed.health,
                        result |-> <<>>, deliveries |-> <<>>, raised |-> TRUE]
         IN IF age > offline_timeout
            THEN IF fault = [op |-> "get_active_alerts", at |-> server_id]
                 THEN failed
                 ELSE IF HasOpen(als, server_id, "offline")
                 THEN OfflineLoopFailing(srv, als, hs, urls, todo \ {server_id},
                                         t, scripts, fault, committed)
                 ELSE IF fault = [op |-> "create_alert", at |-> server_id]
                 THEN failed
                 ELSE LET als2 == create_alert(als, server_id, "offline", "critical",
                                      OfflineMessage(server_id, age \div 60),
                                      offline_timeout, age)
                          id == Len(als) + 1
                          p == _process_alert(als2, urls, id, scripts)
                          hs2 == update_health_status(hs, server_id, "down",
                                     "normal", "normal", "normal", "offline", t)
                          rest == OfflineLoopFailing(srv, p.als, hs2, urls,
                                      todo \ {server_id}, t, scripts, fault,
                                      [als |-> p.als, health |-> hs])
                      IN [als |-> rest.als, health |-> rest.health,
                          result |-> IF rest.raised THEN <<>>
                                     ELSE <<id>> \o rest.result,
                          deliveries |-> p.deliveries \o rest.deliveries,
                          raised |-> rest.raised]
            ELSE OfflineLoopFailing(srv, als, hs, urls, todo \ {server_id}, t,
                                    scripts, fault, committed)

check_offline_servers_failing(srv, als, hs, urls, t, scripts, fault) ==
    OfflineLoopFailing(srv, als, hs, urls, get_all_servers(srv), t, scripts,
                       fault, [als |-> als, health |-> hs])

\* evaluate_metrics ends in the exception of a storage call.
EvaluateMetricsFailing ==
    \E metrics \in Samples, fault \in EvaluateFaults :
      LET r == evaluate_metrics_failing(alerts, webhook_urls, metrics,
                   CHOOSE s \in ScriptChoices(webhook_urls, <<>>) : TRUE, fault)
      IN /\ r.raised
         /\ alerts' = r.als
         /\ ret' = [NoCall EXCEPT !.op = "evaluate_metrics",
                                  !.server_id = metrics.server_id,
                                  !.result = r.result,
                                  !.deliveries = r.deliveries,
                                  !.raised = TRUE]
         /\ UNCHANGED <<security, transmitter, agent, servers, health, now, webhook_urls,
                        metrics_table, sender, workers>>

\* check_offline_servers ends in the exception of a storage call.
CheckOfflineServersFailing ==
    LET stale == StaleUnalerted(servers, alerts, now)
    IN /\ Len(alerts) + Cardinality(stale) <= MaxAlerts
       /\ \E fault \in SweepFaults,
             scripts \in ScriptChoices(webhook_urls,
                                       IF stale = {} THEN <<>> ELSE <<0>>) :
            LET r == check_offline_servers_failing(servers, alerts, health,
                         webhook_urls, now, scripts, fault)
            IN /\ r.raised
               /\ alerts' = r.als
               /\ health' = r.health
               /\ ret' = [NoCall EXCEPT !.op = "check_offline_servers",
                                        !.server_id = fault.at,
                                        !.result = r.result,
                                        !.deliveries = r.deliveries,
                                        !.raised = TRUE]
               /\ UNCHANGED <<security, transmitter, agent, servers, now, webhook_urls,
                              metrics_table, sender, workers>>

NextFailing ==
    \/ CheckOfflineServers
    \/ EvaluateMetricsFailing
    \/ CheckOfflineServersFailing
    \/ UpdateLastSeen
    \/ Tick

SpecFailing == InitNotify /\ [][NextFailing]_vars

(***************************************************************************)
(* The agent's transmitter: HTTPTransmitter.send_with_exponential_backoff, *)
(* one step per send_metrics call and per time.sleep call.                 *)
(***************************************************************************)
MaxAttempts == 3

\* retry_backoff of the agent configuration (default 2.0); whole factors.
BackoffFactors == {2, 3}

RECURSIVE Pow(_, _)
Pow(b, e) == IF e = 0 THEN 1 ELSE b * Pow(b, e - 1)

\* attempts = max_attempts or self.max_retries: None and 0 are both falsy.
Attempts(max_attempts, max_retries) ==
    IF max_attempts = None \/ max_attempts[1] = 0
    THEN max_retries
    ELSE max_attempts[1]

\* The call is made; range(attempts) is empty when attempts is 0.
SendWithExponentialBackoff ==
    /\ transmitter.pc \in {"idle", "done"}
    /\ \E max_attempts \in {None} \cup {Some(n) : n \in 0..MaxAttempts},
          max_retries \in 0..MaxAttempts, backoff_factor \in BackoffFactors :
         LET attempts == Attempts(max_attempts, max_retries)
         IN transmitter' =
              [NoTransmission EXCEPT
                 !.pc = IF attempts = 0 THEN "done" ELSE "send",
                 !.max_attempts = max_attempts,
                 !.max_retries = max_retries,
                 !.backoff_factor = backoff_factor,
                 !.attempts = attempts,
                 !.result = IF attempts = 0 THEN Some(FALSE) ELSE None]
    /\ UNCHANGED <<security, servers, alerts, health, now, webhook_urls, ret, workers,
                   metrics_table, sender, agent>>

\* What the loop body of send_with_exponential_backoff does with the
\* outcome of one send.
LoopBody(tr, success) ==
    IF success
    THEN [tr EXCEPT !.sent = Append(@, success), !.pc = "done",
                    !.result = Some(TRUE)]
    ELSE IF tr.attempt < tr.attempts - 1
         THEN [tr EXCEPT !.sent = Append(@, success), !.pc = "sleep"]
         ELSE [tr EXCEPT !.sent = Append(@, success), !.attempt = @ + 1,
                         !.pc = "done", !.result = Some(FALSE)]

\* success = self.send_metrics(data, api_key), whatever the endpoint.
SendMetrics ==
    /\ transmitter.pc = "send"
    /\ \E success \in BOOLEAN :
         transmitter' = LoopBody(transmitter, success)
    /\ UNCHANGED <<security, servers, alerts, health, now, webhook_urls, ret, workers,
                   metrics_table, sender, agent>>

\* delay = self.backoff_factor ** attempt; time.sleep(delay).
TimeSleep ==
    /\ transmitter.pc = "sleep"
    /\ transmitter' =
         [transmitter EXCEPT
            !.slept = Append(@, Pow(transmitter.backoff_factor, transmitter.attempt)),
            !.attempt = @ + 1, !.pc = "send"]
    /\ UNCHANGED <<security, servers, alerts, health, now, webhook_urls, ret, workers,
                   metrics_table, sender, agent>>

NextTransmit ==
    \/ SendWithExponentialBackoff
    \/ SendMetrics
    \/ TimeSleep

SpecTransmit == Init /\ [][NextTransmit]_vars

(***************************************************************************)
(* The agent service: AgentService.start, stop and _collection_loop, one   *)
(* step per loop test, per collection and per wait on the shutdown event.  *)
(***************************************************************************)
MaxCollections == 2

\* self._collection_thread.is_alive()
is_alive(a, i) == i # 0 /\ a.threads[i] \notin {"unborn", "finished"}

Started(a) == {i \in 1..MaxThreads : a.threads[i] # "unborn"}

\* Mutant: the thread is started whatever the authentication test says.
start_without_authentication(a, authenticated) ==
    IF a._running
    THEN [a EXCEPT !.last = "already_running"]
    ELSE [a EXCEPT !._running = TRUE,
                   !._collection_thread = Cardinality(Started(a)) + 1,
                   !.threads[Cardinality(Started(a)) + 1] = "test",
                   !.last = "started"]

\* AgentService.start: nothing when running, RuntimeError when the
\* authentication test fails, else _running is set and a thread started.
start(a, authenticated) ==
    IF a._running
    THEN [a EXCEPT !.last = "already_running"]
    ELSE IF ~authenticated
         THEN [a EXCEPT !.last = "start_raised"]
         ELSE [a EXCEPT !._running = TRUE,
                        !._collection_thread = Cardinality(Started(a)) + 1,
                        !.threads[Cardinality(Started(a)) + 1] = "test",
                        !.last = "started"]

\* AgentService.stop up to the join: nothing when not running, else the
\* flag is cleared and the event set, and a live thread is waited for.
stop(a) ==
    IF ~a._running
    THEN [a EXCEPT !.last = "not_running"]
    ELSE [a EXCEPT !._running = FALSE, !._shutdown_event = TRUE,
                   !.joining = is_alive(a, a._collection_thread),
                   !.last = IF is_alive(a, a._collection_thread)
                            THEN "stopping" ELSE "stopped"]

Start ==
    /\ ~agent.joining
    /\ \E authenticated \in BOOLEAN :
         /\ (~agent._running /\ authenticated)
               => Cardinality(Started(agent)) < MaxThreads
         /\ agent' = start(agent, authenticated)
    /\ UNCHANGED <<security, servers, alerts, health, now, webhook_urls, ret, workers,
                   metrics_table, sender, transmitter>>

Stop ==
    /\ ~agent.joining
    /\ agent' = stop(agent)
    /\ UNCHANGED <<security, servers, alerts, health, now, webhook_urls, ret, workers,
                   metrics_table, sender, transmitter>>

\* join(timeout=10) returns: the thread has finished or the timeout has
\* passed; the transmitter is closed and stop() returns.
StopJoin ==
    /\ agent.joining
    /\ agent' = [agent EXCEPT !.joining = FALSE, !.last = "stopped"]
    /\ UNCHANGED <<security, servers, alerts, health, now, webhook_urls, ret, workers,
                   metrics_table, sender, transmitter>>

\* while self._running and not self._shutdown_event.is_set(): the test
\* and the call of collect_and_send_metrics that follows it.
LoopTest(i) ==
    /\ agent.threads[i] = "test"
    /\ IF agent._running /\ ~agent._shutdown_event
       THEN /\ agent.collections < MaxCollections
            /\ agent' = [agent EXCEPT !.threads[i] = "collecting",
                                      !.collections = @ + 1]
       ELSE agent' = [agent EXCEPT !.threads[i] = "finished"]
    /\ UNCHANGED <<security, servers, alerts, health, now, webhook_urls, ret, workers,
                   metrics_table, sender, transmitter>>

\* The collection ends: sent, not sent (False returned), or an exception
\* that reaches the loop's handler.
CollectAndSendMetrics(i) ==
    /\ agent.threads[i] = "collecting"
    /\ \E outcome \in {"sent", "not_sent", "raised"} :
         agent' = [agent EXCEPT
                     !.threads[i] = IF outcome = "raised" THEN "retry_wait"
                                    ELSE "wait",
                     !.failed = @ \/ outcome # "sent"]
    /\ UNCHANGED <<security, servers, alerts, health, now, webhook_urls, ret, workers,
                   metrics_table, sender, transmitter>>

\* self._shutdown_event.wait(timeout=...) returns: True breaks the loop,
\* False (the interval has passed) goes round it.
ShutdownWait(i) ==
    /\ agent.threads[i] \in {"wait", "retry_wait"}
    /\ agent' = [agent EXCEPT !.threads[i] = IF agent._shutdown_event
                                             THEN "finished" ELSE "test"]
    /\ UNCHANGED <<security, servers, alerts, health, now, webhook_urls, ret, workers,
                   metrics_table, sender, transmitter>>

NextAgent ==
    \/ Start
    \/ Stop
    \/ StopJoin
    \/ \E i \in 1..MaxThreads : LoopTest(i)
    \/ \E i \in 1..MaxThreads : CollectAndSendMetrics(i)
    \/ \E i \in 1..MaxThreads : ShutdownWait(i)

SpecAgent == Init /\ [][NextAgent]_vars

\* A started thread is scheduled, a collection returns, and a wait ends.
SpecAgentFair ==
    /\ SpecAgent
    /\ \A i \in 1..MaxThreads :
         /\ WF_vars(LoopTest(i))
         /\ WF_vars(CollectAndSendMetrics(i))
         /\ WF_vars(ShutdownWait(i))

(***************************************************************************)
(* The server as deployed: the metrics endpoint and the clock.  The        *)
(* application's lifespan creates the tables and checks the connection; it *)
(* starts no background task, and no handler calls the alert engine or the *)
(* health manager.                                                         *)
(***************************************************************************)
\* What agents submit: the stored samples above and one with the CPU and a
\* filesystem over the alert thresholds.
SubmittedSamples ==
    HealthSamples \cup
    {[cpu_usage |-> 95, memory_percentage |-> 60,
      disk_usage |-> <<[percentage |-> 85]>>, failed_services |-> <<>>]}

HTTP_200 == 200
HTTP_201_CREATED == 201
HTTP_401_UNAUTHORIZED == 401
HTTP_500_INTERNAL_SERVER_ERROR == 500

\* DatabaseManager.store_metrics: the sample and last_seen are committed
\* together, or the session is rolled back and False is returned.
store_metrics(srv, mt, server_id, metric, t, committed) ==
    IF committed
    THEN [servers |-> update_last_seen(srv, server_id, t),
          metrics_table |-> [mt EXCEPT ![server_id] = Some(metric)],
          success |-> TRUE]
    ELSE [servers |-> srv, metrics_table |-> mt, success |-> FALSE]

\* MetricsAPI._submit_metrics: authenticate, ensure the server row exists,
\* store the sample, answer.
SubmitMetrics ==
    \E server_id \in Hosts, metric \in SubmittedSamples,
       api_key_valid \in BOOLEAN, committed \in BOOLEAN :
      LET r == store_metrics(servers, metrics_table, server_id, metric, now,
                             committed)
      IN IF ~api_key_valid
         THEN /\ ret' = [NoCall EXCEPT !.op = "_submit_metrics",
                                       !.server_id = server_id,
                                       !.count = HTTP_401_UNAUTHORIZED]
              /\ UNCHANGED <<security, transmitter, agent, servers, alerts, health, now, webhook_urls,
                             workers, metrics_table, sender>>
         ELSE /\ servers' = r.servers
              /\ metrics_table' = r.metrics_table
              /\ ret' = [NoCall EXCEPT !.op = "_submit_metrics",
                                       !.server_id = server_id,
                                       !.count = IF r.success THEN HTTP_201_CREATED
                                                 ELSE HTTP_500_INTERNAL_SERVER_ERROR]
              /\ UNCHANGED <<security, transmitter, agent, alerts, health, now, webhook_urls, workers, sender>>

NextServer ==
    \/ SubmitMetrics
    \/ Tick

SpecServer == Init /\ [][NextServer]_vars

(***************************************************************************)
(* Deregistration from the dashboard and the sweeps that follow it.        *)
(***************************************************************************)
HTTP_404_NOT_FOUND == 404

\* deregister_server: the server row is marked inactive and kept.
deregister_server(srv, server_id) ==
    [srv EXCEPT ![server_id].is_active = FALSE]

DeregisterServer ==
    \E server_id \in Hosts \cup {Unregistered} :
      /\ servers' = IF server_id \in DOMAIN servers
                    THEN deregister_server(servers, server_id)
                    ELSE servers
      /\ ret' = [NoCall EXCEPT !.op = "deregister_server",
                               !.server_id = server_id,
                               !.count = IF server_id \in DOMAIN servers
                                         THEN HTTP_200 ELSE HTTP_404_NOT_FOUND]
      /\ UNCHANGED <<security, transmitter, agent, alerts, health, now, webhook_urls,
                     workers, metrics_table, sender>>

NextDeregister ==
    \/ DeregisterServer
    \/ CheckOfflineServers
    \/ UpdateLastSeen
    \/ Tick

SpecDeregister == Init /\ [][NextDeregister]_vars

(***************************************************************************)
(* Outages: the health manager and the sweep with a clock that moves by    *)
(* more than the offline timeout.                                          *)
(***************************************************************************)
MaxOutages == 2

\* Long enough for a host that does not report to exceed the timeout.
TickOutage ==
    /\ now < MaxOutages * 2 * offline_timeout
    /\ now' = now + 2 * offline_timeout
    /\ ret' = [NoCall EXCEPT !.op = "tick"]
    /\ UNCHANGED <<security, transmitter, agent, servers, alerts, health, webhook_urls,
                   metrics_table, sender, workers>>

NextOutage ==
    \/ StoreMetrics
    \/ EvaluateServerHealth
    \/ CheckOfflineServers
    \/ TickOutage

SpecOutage == Init /\ [][NextOutage]_vars

(***************************************************************************)
(* The agent against the server: collect_and_send_metrics hands one        *)
(* collected sample to send_with_exponential_backoff, whose send_metrics   *)
(* posts it to /api/v1/metrics.                                            *)
(***************************************************************************)
\* The host the agent runs on (config.server_id).
AgentHost == "h1"

\* send_metrics: True only for response.status_code == 200.
send_metrics(status_code) == status_code = HTTP_200

\* _submit_metrics behind the route declared with HTTP_201_CREATED.
_submit_metrics(srv, mt, server_id, metric, t, api_key_valid, committed) ==
    LET r == store_metrics(srv, mt, server_id, metric, t, committed)
    IN IF ~api_key_valid
       THEN [servers |-> srv, metrics_table |-> mt, stored |-> 0,
             status_code |-> HTTP_401_UNAUTHORIZED]
       ELSE [servers |-> r.servers, metrics_table |-> r.metrics_table,
             stored |-> IF r.success THEN 1 ELSE 0,
             status_code |-> IF r.success THEN HTTP_201_CREATED
                             ELSE HTTP_500_INTERNAL_SERVER_ERROR]

\* One collection cycle begins: the sample is collected and handed to
\* send_with_exponential_backoff(metrics, api_key), max_attempts left None.
CollectAndSend ==
    /\ transmitter.pc \in {"idle", "done"}
    /\ \E metric \in SubmittedSamples, max_retries \in 0..MaxAttempts,
          backoff_factor \in BackoffFactors :
         LET attempts == Attempts(None, max_retries)
         IN transmitter' =
              [NoTransmission EXCEPT
                 !.pc = IF attempts = 0 THEN "done" ELSE "send",
                 !.max_retries = max_retries,
                 !.backoff_factor = backoff_factor,
                 !.attempts = attempts,
                 !.data = Some(metric),
                 !.result = IF attempts = 0 THEN Some(FALSE) ELSE None]
    /\ UNCHANGED <<security, servers, alerts, health, now, webhook_urls, ret, workers,
                   metrics_table, sender, agent>>

\* One send of the loop: the POST is handled by the server, and the
\* status it answers decides what send_metrics returns.
PostMetrics ==
    /\ transmitter.pc = "send"
    /\ \E api_key_valid \in BOOLEAN, committed \in BOOLEAN :
         LET r == _submit_metrics(servers, metrics_table, AgentHost,
                                  transmitter.data[1], now, api_key_valid,
                                  committed)
         IN /\ servers' = r.servers
            /\ metrics_table' = r.metrics_table
            /\ transmitter' =
                 [LoopBody(transmitter, send_metrics(r.status_code)) EXCEPT
                    !.answers = Append(@, r.status_code),
                    !.stored = @ + r.stored]
            /\ ret' = [NoCall EXCEPT !.op = "_submit_metrics",
                                     !.server_id = AgentHost,
                                     !.count = r.status_code]
    /\ UNCHANGED <<security, alerts, health, now, webhook_urls, workers, sender, agent>>

NextEndToEnd ==
    \/ CollectAndSend
    \/ PostMetrics
    \/ TimeSleep
    \/ Tick

SpecEndToEnd == Init /\ [][NextEndToEnd]_vars

(***************************************************************************)
(* Submissions by API key: the api_keys table holds one active key per     *)
(* registered host, with the server_id it was issued for.                  *)
(***************************************************************************)
api_keys == [k \in {"k1", "k2"} |-> [server_id |-> IF k = "k1" THEN "h1" ELSE "h2",
                                     is_active |-> TRUE]]

\* The keys a request may present: the issued ones and an unknown one.
RawKeys == DOMAIN api_keys \cup {"k0"}

\* validate_api_key: the active record whose hash matches, or None.
validate_api_key(raw_key) ==
    IF raw_key \in DOMAIN api_keys /\ api_keys[raw_key].is_active
    THEN Some(api_keys[raw_key])
    ELSE None

\* _submit_metrics with the key it was sent: the record the key validates
\* to decides 401 or not and nothing else; the sample is stored under
\* metrics_data.server_id.
SubmitMetricsWithKey ==
    \E raw_key \in RawKeys, server_id \in Hosts, metric \in SubmittedSamples,
       committed \in BOOLEAN :
      LET api_key_record == validate_api_key(raw_key)
          r == _submit_metrics(servers, metrics_table, server_id, metric, now,
                               api_key_record # None, committed)
      IN /\ servers' = r.servers
         /\ metrics_table' = r.metrics_table
         /\ ret' = [NoCall EXCEPT
                      !.op = "_submit_metrics",
                      !.server_id = server_id,
                      !.result = IF api_key_record = None THEN <<>>
                                 ELSE <<api_key_record[1].server_id>>,
                      !.count = r.status_code]
         /\ UNCHANGED <<security, transmitter, agent, alerts, health, now, webhook_urls,
                        workers, sender>>

NextKeys ==
    \/ SubmitMetricsWithKey
    \/ Tick

SpecKeys == Init /\ [][NextKeys]_vars

(***************************************************************************)
(* The security middleware as the API runs it: MetricsAPI.__init__         *)
(* registers an http middleware that constructs a SecurityMiddleware for   *)
(* each request and calls it.                                              *)
(***************************************************************************)
max_failed_attempts == 5
block_duration == 900
HTTP_400_BAD_REQUEST == 400
HTTP_429_TOO_MANY_REQUESTS == 429

\* SecurityMiddleware.__init__: nothing blocked, nothing counted.
SecurityMiddleware ==
    [blocked_ips |-> [ip \in ClientIPs |-> None],
     failed_attempts |-> [ip \in ClientIPs |-> 0]]

\* _is_ip_blocked: an expired block is removed with the failure count.
_is_ip_blocked(self, ip, t) ==
    IF self.blocked_ips[ip] # None
    THEN IF t - self.blocked_ips[ip][1] < block_duration
         THEN [self |-> self, blocked |-> TRUE]
         ELSE [self |-> [self EXCEPT !.blocked_ips[ip] = None,
                                     !.failed_attempts[ip] = 0],
               blocked |-> FALSE]
    ELSE [self |-> self, blocked |-> FALSE]

\* _record_failed_attempt.
_record_failed_attempt(self, ip, t) ==
    LET counted == [self EXCEPT !.failed_attempts[ip] = @ + 1]
    IN IF counted.failed_attempts[ip] >= max_failed_attempts
       THEN [counted EXCEPT !.blocked_ips[ip] = Some(t)]
       ELSE counted

\* SecurityMiddleware.__call__ on one instance.
__call__(self, ip, malicious, t) ==
    LET b == _is_ip_blocked(self, ip, t)
    IN IF b.blocked
       THEN [self |-> b.self, status_code |-> HTTP_429_TOO_MANY_REQUESTS]
       ELSE IF malicious
            THEN [self |-> _record_failed_attempt(b.self, ip, t),
                  status_code |-> HTTP_400_BAD_REQUEST]
            ELSE [self |-> b.self, status_code |-> HTTP_200]

\* One request through the registered middleware:
\* security = SecurityMiddleware(); return await security(request, call_next).
SecurityMiddlewareRequest ==
    /\ \E ip \in ClientIPs, malicious \in BOOLEAN :
         LET r == __call__(SecurityMiddleware, ip, malicious, now)
             bad == r.status_code = HTTP_400_BAD_REQUEST
             n == security.rejected[ip]
         IN security' =
              [rejected |-> [security.rejected EXCEPT
                               ![ip] = IF bad /\ n <= max_failed_attempts
                                       THEN n + 1 ELSE n],
               rejected_at |-> [security.rejected_at EXCEPT
                                  ![ip] = IF bad /\ n + 1 = max_failed_attempts
                                          THEN Some(now) ELSE @],
               last |-> Some([ip |-> ip, status_code |-> r.status_code,
                              rejected_before |-> n])]
    /\ UNCHANGED <<servers, alerts, health, now, webhook_urls, ret, workers,
                   metrics_table, sender, transmitter, agent>>

NextSecurity ==
    \/ SecurityMiddlewareRequest
    \/ Tick

SpecSecurity == Init /\ [][NextSecurity]_vars

(***************************************************************************)
(* Health evaluation with storage failures: a failing call raises inside   *)
(* the try of evaluate_server_health, the session is rolled back and the   *)
(* except branch answers.                                                  *)
(***************************************************************************)
\* The storage call of one evaluation that fails, if any.
HealthFaults == {"none", "get_server", "get_latest_metrics", "commit"}

evaluate_server_health_failing(srv, mt, hs, server_id, t, fault) ==
    LET raised ==
          \/ fault = "get_server"
          \/ /\ fault = "get_latest_metrics"
             /\ server_id \in DOMAIN srv
             /\ _evaluate_connectivity(Some(srv[server_id].last_seen), t) = "online"
          \/ /\ fault = "commit"
             /\ server_id \in DOMAIN srv
    IN IF raised
       THEN [health |-> hs, result |-> "down", fetched |-> FALSE, raised |-> TRUE]
       ELSE LET r == evaluate_server_health(srv, mt, hs, server_id, t)
            IN [health |-> r.health, result |-> r.result,
                fetched |-> r.fetched, raised |-> FALSE]

EvaluateServerHealthFailing ==
    \E server_id \in Hosts \cup {Unregistered}, fault \in HealthFaults :
      LET r == evaluate_server_health_failing(servers, metrics_table, health,
                                              server_id, now, fault)
      IN /\ health' = r.health
         /\ ret' = [NoCall EXCEPT !.op = "evaluate_server_health",
                                  !.server_id = server_id,
                                  !.result = <<r.result>>,
                                  !.count = IF r.fetched THEN 1 ELSE 0]
         /\ UNCHANGED <<security, transmitter, agent, servers, alerts, now,
                        webhook_urls, workers, metrics_table, sender>>

NextHealthFailing ==
    \/ StoreMetrics
    \/ EvaluateServerHealthFailing
    \/ Tick

SpecHealthFailing == Init /\ [][NextHealthFailing]_vars

(***************************************************************************)
(* Evaluation of samples at and next to the default thresholds.            *)
(***************************************************************************)
BoundaryCpuValues == {cpu_threshold - 1, cpu_threshold, cpu_threshold + 1}
BoundaryDiskValues == {disk_threshold - 1, disk_threshold, disk_threshold + 1}

BoundaryDiskLists ==
    UNION {[1..n -> [mountpoint : Mounts, percentage : BoundaryDiskValues]] :
              n \in 0..MaxDisks}

BoundarySamples ==
    [server_id : Hosts, cpu_usage : BoundaryCpuValues,
     disk_usage : BoundaryDiskLists]

EvaluateMetricsAtBoundary ==
    \E metrics \in BoundarySamples :
      LET r == evaluate_metrics(alerts, webhook_urls, metrics,
                   CHOOSE scripts \in ScriptChoices(webhook_urls, <<>>) : TRUE)
      IN /\ webhook_urls = <<>>
         /\ Len(r.als) <= MaxAlerts
         /\ alerts' = r.als
         /\ ret' = [NoCall EXCEPT !.op = "evaluate_metrics",
                                  !.server_id = metrics.server_id,
                                  !.result = r.result,
                                  !.deliveries = r.deliveries]
         /\ UNCHANGED <<security, transmitter, agent, servers, health, now,
                        webhook_urls, metrics_table, sender, workers>>

NextBoundary ==
    \/ EvaluateMetricsAtBoundary
    \/ ResolveAlertsForServer

SpecBoundary == Init /\ [][NextBoundary]_vars

(***************************************************************************)
(* Properties.                                                             *)
(***************************************************************************)
Open(als) == {i \in 1..Len(als) : ~als[i].is_resolved}

OpenOf(als, server_id, alert_type) ==
    {i \in Open(als) : als[i].server_id = server_id /\ als[i].alert_type = alert_type}

RowsOf(als, server_id, alert_type) ==
    {i \in 1..Len(als) : als[i].server_id = server_id /\ als[i].alert_type = alert_type}

\* The mountpoint a disk alert was raised for: the text between the
\* parentheses that end its message; nothing for the other types.
Discriminator(a) ==
    IF a.alert_type = "disk"
    THEN SubSeq(a.message, Len(DiskMessage(a.server_id, a.actual_value, <<>>)),
                Len(a.message) - 1)
    ELSE <<>>

AlertKey(a) == <<a.server_id, a.alert_type, Discriminator(a)>>

Stale(srv, h, t) == srv[h].is_active /\ t - srv[h].last_seen > offline_timeout

\* C1: storage holds at most one open alert per (host, alert type,
\* discriminator), the discriminator being the mountpoint of a disk alert.
C1_OneOpenPerKey ==
    \A i \in Open(alerts) : \A j \in Open(alerts) :
        AlertKey(alerts[i]) = AlertKey(alerts[j]) => i = j

\* C2: two interleaved evaluations or sweeps never leave two open alerts of
\* the same host and type (cpu, offline: the types without discriminator).
C2_SerializedCreation ==
    \A h \in Hosts : \A ty \in {"cpu", "offline"} :
        Cardinality(OpenOf(alerts, h, ty)) <= 1

\* C3: in every reachable storage, evaluate_metrics on a sample over the
\* CPU threshold, for a host that has an open cpu alert, adds no cpu alert
\* and returns only alerts it created, none of them a cpu alert.
C3_CpuDedup ==
    \A metrics \in Samples :
        (/\ metrics.cpu_usage > cpu_threshold
         /\ OpenOf(alerts, metrics.server_id, "cpu") # {})
        => \A scripts \in ScriptChoices(webhook_urls, <<>>) :
             LET r == evaluate_metrics(alerts, webhook_urls, metrics, scripts)
             IN /\ RowsOf(r.als, metrics.server_id, "cpu")
                     = RowsOf(alerts, metrics.server_id, "cpu")
                /\ \A k \in DOMAIN r.result :
                     /\ r.result[k] > Len(alerts)
                     /\ r.als[r.result[k]].alert_type # "cpu"

\* An evaluation for a host returned new alerts, none of type cpu, while an
\* older cpu alert of that host is open.
C3_Witness ==
    /\ ret.op = "evaluate_metrics"
    /\ ret.result # <<>>
    /\ \A k \in DOMAIN ret.result : alerts[ret.result[k]].alert_type # "cpu"
    /\ \E i \in OpenOf(alerts, ret.server_id, "cpu") : i < ret.result[1]

AllBelow(metrics) ==
    /\ metrics.cpu_usage < cpu_threshold
    /\ \A k \in DOMAIN metrics.disk_usage :
         metrics.disk_usage[k].percentage < disk_threshold

\* C4: in every reachable storage, a sample with the CPU and every disk
\* under their thresholds makes evaluate_metrics return nothing, create
\* nothing and contact no sink, whatever the sinks would answer.
C4_BelowThresholdsNothing ==
    \A metrics \in Samples :
        AllBelow(metrics)
        => \A scripts \in [Range(webhook_urls) -> Scripts] :
             LET r == evaluate_metrics(alerts, webhook_urls, metrics, scripts)
             IN /\ r.result = <<>>
                /\ r.als = alerts
                /\ r.deliveries = <<>>

\* With a sink configured and alerts open, an evaluation returned nothing
\* and delivered nothing.
C4_Witness ==
    /\ ret.op = "evaluate_metrics"
    /\ ret.result = <<>>
    /\ ret.deliveries = <<>>
    /\ webhook_urls # <<>>
    /\ OpenOf(alerts, ret.server_id, "cpu") # {}
    /\ \E metrics \in Samples :
         AllBelow(metrics) /\ metrics.server_id = ret.server_id /\ metrics.disk_usage # <<>>

\* C5: right after a sweep, a second sweep (at once or one timeout later,
\* no liveness update or resolution in between) returns no alert for the
\* hosts that were stale and leaves each of them exactly one open offline
\* alert.
C5_SweepIdempotent ==
    ret.op = "check_offline_servers"
    => \A t \in {now, now + offline_timeout} :
         \A scripts \in ScriptChoices(webhook_urls, <<>>) :
           LET r == check_offline_servers(servers, alerts, health, webhook_urls, t, scripts)
           IN \A h \in Hosts :
                Stale(servers, h, now)
                => /\ \A k \in DOMAIN r.result : r.als[r.result[k]].server_id # h
                   /\ Cardinality(OpenOf(r.als, h, "offline")) = 1
                   /\ RowsOf(r.als, h, "offline") = RowsOf(alerts, h, "offline")

\* A sweep has just created an offline alert for a stale host.
C5_Witness ==
    /\ ret.op = "check_offline_servers"
    /\ ret.result # <<>>
    /\ \E h \in Hosts :
         /\ Stale(servers, h, now)
         /\ alerts[ret.result[1]].server_id = h
         /\ ~Stale(servers, CHOOSE g \in Hosts : g # h, now)

\* C6: the sweep creates, for every active stale host without an open
\* offline alert, exactly one critical offline alert (threshold = timeout,
\* actual = seconds since last seen), returns exactly those alerts and
\* classifies the host Down/Offline; a host seen within the timeout gets no
\* alert and keeps its classification.
C6_SweepCreates ==
    [][ret'.op = "check_offline_servers"
       => /\ \A h \in Hosts :
               LET new == {i \in (Len(alerts) + 1)..Len(alerts') : alerts'[i].server_id = h}
               IN /\ (Stale(servers, h, now) /\ OpenOf(alerts, h, "offline") = {})
                       => /\ Cardinality(new) = 1
                          /\ \A i \in new :
                               /\ alerts'[i].alert_type = "offline"
                               /\ alerts'[i].severity = "critical"
                               /\ alerts'[i].threshold_value = offline_timeout
                               /\ alerts'[i].actual_value = now - servers[h].last_seen
                               /\ ~alerts'[i].is_resolved
                               /\ \E k \in DOMAIN ret'.result : ret'.result[k] = i
                          /\ health'[h].exists
                          /\ health'[h].status = "down"
                          /\ health'[h].connectivity_status = "offline"
                  /\ ~Stale(servers, h, now) => (new = {} /\ health'[h] = health[h])
          /\ Range(ret'.result) = (Len(alerts) + 1)..Len(alerts')
          /\ Len(ret'.result) = Len(alerts') - Len(alerts)
          /\ SubSeq(alerts', 1, Len(alerts)) = alerts]_vars

C6_Witness ==
    /\ ret.op = "check_offline_servers"
    /\ ret.result # <<>>
    /\ \E h \in Hosts :
         /\ alerts[ret.result[1]].server_id = h
         /\ health[h].status = "down"
    /\ \E h \in Hosts : ~Stale(servers, h, now) /\ ~health[h].exists

\* C7: a resolved alert has a resolved_at timestamp, stays resolved and is
\* never returned by get_active_alerts, with or without a host filter.
C7_ResolvedStaysOut ==
    [][/\ Len(alerts') >= Len(alerts)
       /\ \A i \in 1..Len(alerts) : alerts[i].is_resolved => alerts'[i].is_resolved
       /\ \A i \in 1..Len(alerts') :
            alerts'[i].is_resolved
              => /\ alerts'[i].resolved_at # None
                 /\ i \notin get_active_alerts(alerts', NoFilter)
                 /\ \A h \in Hosts : i \notin get_active_alerts(alerts', h)]_vars

C7_Witness ==
    /\ ret.op = "resolve_alert"
    /\ ret.count = 1
    /\ \E i \in 1..Len(alerts) : alerts[i].is_resolved /\ alerts[i].resolved_at = Some(now)
    /\ Open(alerts) # {}

\* C8: in every reachable storage, resolve_alerts_for_server(host, types)
\* resolves exactly the host's open alerts whose type passes the filter,
\* returns how many, and leaves every other alert as it was.
C8_ResolveExactly ==
    \A server_id \in Hosts : \A alert_types \in TypeFilters :
        LET r == resolve_alerts_for_server(alerts, server_id, alert_types, now)
            target == {i \in Open(alerts) :
                         /\ alerts[i].server_id = server_id
                         /\ alert_types.given => alerts[i].alert_type \in alert_types.types}
        IN /\ Len(r.als) = Len(alerts)
           /\ r.resolved_count = Cardinality(target)
           /\ \A i \in 1..Len(alerts) :
                IF i \in target
                THEN r.als[i] = [alerts[i] EXCEPT !.is_resolved = TRUE,
                                                 !.resolved_at = Some(now)]
                ELSE r.als[i] = alerts[i]

C8_Witness ==
    /\ ret.op = "resolve_alerts_for_server"
    /\ ret.count >= 1
    /\ \E i \in 1..Len(alerts) : alerts[i].is_resolved /\ alerts[i].server_id = ret.server_id
    /\ Open(alerts) # {}

AllFailed(d) ==
    /\ d.posts = webhook_retry_attempts
    /\ \A k \in DOMAIN d.outcomes :
         d.outcomes[k].raised \/ d.outcomes[k].status_code >= 400

\* C9: a delivery whose attempts all fail (status >= 400 or exception) is
\* recorded exactly once, with response code 0, and reports failure.
C9_AllFailedRecordedZero ==
    \A k \in DOMAIN ret.deliveries :
        AllFailed(ret.deliveries[k])
          => /\ ret.deliveries[k].recorded = <<0>>
             /\ ~ret.deliveries[k].ok

\* C10: a delivery that ends in a successful response is recorded exactly
\* once, with the status code of that response, however many attempts
\* failed before it.
C10_SuccessRecordedOnce ==
    \A k \in DOMAIN ret.deliveries :
        LET d == ret.deliveries[k]
        IN d.ok => d.recorded = <<d.outcomes[d.posts].status_code>>

\* Answers around the success boundary of _send_webhook.
BoundaryOutcomes ==
    Outcomes \cup {[raised |-> FALSE, status_code |-> 399],
                   [raised |-> FALSE, status_code |-> 400]}

BoundaryScripts == [1..webhook_retry_attempts -> BoundaryOutcomes]

\* The attempts of a script that are answered with a status under 400.
Successes(script) ==
    {k \in DOMAIN script : ~script[k].raised /\ script[k].status_code < 400}

Min(S) == CHOOSE x \in S : \A y \in S : x <= y

\* Whenever _send_webhook is called for a sink, the call as a whole obeys
\* the retry bound for every behaviour of the sink.
C11_CallBounded ==
    (sender.pc = "post" /\ sender.attempt = 0)
    => \A script \in BoundaryScripts :
        LET d == _send_webhook(alerts, webhook_urls[sender.k], sender.todo[1],
                               script).delivery
        IN /\ d.posts \in 1..webhook_retry_attempts
           /\ d.ok <=> Successes(script) # {}
           /\ d.posts = IF Successes(script) # {} THEN Min(Successes(script))
                        ELSE webhook_retry_attempts

\* One POST: a status under 400 ends the sink's loop with True, a failure
\* with attempts left is followed by the next attempt on the same sink,
\* and the failure of the last attempt ends the loop with False.
C11_Step ==
    sender.pc = "post" =>
      LET o == sender'.last[1]
          good == ~o.raised /\ o.status_code < 400
          closed == sender'.deliveries[Len(sender'.deliveries)]
      IN /\ sender.attempt < webhook_retry_attempts
         /\ good => /\ Len(sender'.deliveries) = Len(sender.deliveries) + 1
                    /\ closed.ok /\ closed.posts = sender.attempt + 1
         /\ (~good /\ sender.attempt < webhook_retry_attempts - 1)
               => /\ sender'.pc = "post" /\ sender'.k = sender.k
                  /\ sender'.attempt = sender.attempt + 1
                  /\ sender'.deliveries = sender.deliveries
         /\ (~good /\ sender.attempt = webhook_retry_attempts - 1)
               => /\ Len(sender'.deliveries) = Len(sender.deliveries) + 1
                  /\ ~closed.ok /\ closed.posts = webhook_retry_attempts

\* C11: per sink the notifier makes at most webhook_retry_attempts POSTs,
\* stops with True at the first status under 400, tries again after every
\* status of 400 or more and every exception while attempts remain,
\* returns False exactly when all attempts failed, and every notification
\* once begun reaches its commit.
C11_BoundedRetries ==
    /\ []C11_CallBounded
    /\ [][C11_Step]_vars
    /\ (sender.pc = "post") ~> (sender.pc = "commit")

\* One sink was given up after all its attempts and the next one answered
\* with success on its second attempt.
C11_Witness ==
    /\ sender.pc = "commit"
    /\ Len(sender.deliveries) = 2
    /\ ~sender.deliveries[1].ok
    /\ sender.deliveries[1].posts = webhook_retry_attempts
    /\ sender.deliveries[2].ok
    /\ sender.deliveries[2].posts = 2

\* C12: with two sinks, every sink is contacted for every new alert,
\* whatever happened on the sinks before it, and what is recorded of a
\* sink's delivery depends on that sink's answers alone.
C12_FanOutIndependent ==
    /\ sender.pc = "post"
         => /\ sender.k \in 1..Len(webhook_urls)
            /\ Len(sender.deliveries) = sender.k - 1
    /\ sender.pc = "commit"
         => /\ Len(sender.deliveries) = Len(webhook_urls)
            /\ \A k \in DOMAIN webhook_urls :
                 /\ sender.deliveries[k].url = webhook_urls[k]
                 /\ sender.deliveries[k].posts >= 1
    /\ (sender.pc = "post" /\ sender.k = 1 /\ sender.attempt = 0)
         => \A scripts \in [Range(webhook_urls) -> Scripts] :
              LET alert_id == sender.todo[1]
                  r == _send_webhook_notifications(alerts, webhook_urls, 1,
                                                   alert_id, scripts)
              IN /\ Len(r.deliveries) = Len(webhook_urls)
                 /\ \A k \in DOMAIN webhook_urls :
                      r.deliveries[k] =
                        _send_webhook(alerts, webhook_urls[k], alert_id,
                                      scripts[webhook_urls[k]]).delivery

\* The first sink raised on every attempt and the second was still
\* contacted and answered with success at once.
C12_Witness ==
    /\ sender.pc = "commit"
    /\ Len(sender.deliveries) = 2
    /\ ~sender.deliveries[1].ok
    /\ sender.deliveries[2].ok
    /\ sender.deliveries[2].posts = 1
    /\ alerts[sender.todo[1]].webhook_response_code = Some(200)

\* The row of an alert without its webhook delivery columns.
Durable(a) ==
    [server_id |-> a.server_id, alert_type |-> a.alert_type,
     severity |-> a.severity, message |-> a.message,
     threshold_value |-> a.threshold_value, actual_value |-> a.actual_value,
     resolved_at |-> a.resolved_at, is_resolved |-> a.is_resolved]

\* Two tables hold the same alerts, delivery columns aside.
SameAlerts(als1, als2) ==
    /\ Len(als1) = Len(als2)
    /\ \A i \in DOMAIN als1 : Durable(als1[i]) = Durable(als2[i])

\* The scripts of an engine without sinks.
Silent == [u \in {} |-> <<>>]

\* C13: whatever the sink answers (status of 400 or more, exceptions, on
\* some or all attempts), evaluate_metrics and check_offline_servers
\* return and store the same open alerts, and the same health rows, as an
\* engine without sinks; the alerts a call returned are stored and open.
C13_FailureKeepsAlert ==
    /\ ret.op \in {"evaluate_metrics", "check_offline_servers"}
         => \A k \in DOMAIN ret.result :
              /\ ret.result[k] \in Open(alerts)
              /\ alerts[ret.result[k]].resolved_at = None
    /\ \A metrics \in Samples :
         LET q == evaluate_metrics(alerts, <<>>, metrics, Silent)
         IN \A scripts \in ScriptChoices(webhook_urls, q.result) :
              LET r == evaluate_metrics(alerts, webhook_urls, metrics, scripts)
              IN /\ r.result = q.result
                 /\ SameAlerts(r.als, q.als)
                 /\ \A k \in DOMAIN r.result : r.result[k] \in Open(r.als)
    /\ LET q == check_offline_servers(servers, alerts, health, <<>>, now, Silent)
       IN \A scripts \in ScriptChoices(webhook_urls, q.result) :
            LET r == check_offline_servers(servers, alerts, health, webhook_urls,
                                           now, scripts)
            IN /\ r.result = q.result
               /\ SameAlerts(r.als, q.als)
               /\ r.health = q.health
               /\ \A k \in DOMAIN r.result : r.result[k] \in Open(r.als)

\* A sweep returned an offline alert whose delivery failed on every
\* attempt, the last by an exception; the alert is stored and open.
C13_Witness ==
    /\ ret.op = "check_offline_servers"
    /\ ret.result # <<>>
    /\ \E k \in DOMAIN ret.deliveries :
         /\ ~ret.deliveries[k].ok
         /\ ret.deliveries[k].posts = webhook_retry_attempts
         /\ ret.deliveries[k].alert_id = ret.result[1]
         /\ ret.deliveries[k].outcomes[webhook_retry_attempts].raised
    /\ ret.result[1] \in Open(alerts)
    /\ alerts[ret.result[1]].alert_type = "offline"

\* The last call classified host h from its stored sample.
ClassifiedFromSample(h) ==
    /\ ret.op = "evaluate_server_health"
    /\ ret.server_id = h
    /\ ret.result # <<"down">>
    /\ metrics_table[h] # None

\* C14: every persisted classification has overall status down exactly
\* when its connectivity is offline, after any sequence of
\* store_metrics, evaluate_server_health, check_offline_servers and
\* passing time.
C14_DownIffOffline ==
    \A h \in Hosts :
        health[h].exists
        => /\ health[h].status \in {"healthy", "warning", "down"}
           /\ health[h].connectivity_status \in {"online", "offline"}
           /\ health[h].status = "down" <=> health[h].connectivity_status = "offline"

\* One host was marked down and offline by the sweep while the other
\* holds a sample with a critical CPU and is classified warning, online.
C14_Witness ==
    /\ ret.op = "check_offline_servers"
    /\ ret.result # <<>>
    /\ \E h \in Hosts, g \in Hosts :
         /\ health[h].status = "down"
         /\ health[h].connectivity_status = "offline"
         /\ health[g].status = "warning"
         /\ health[g].connectivity_status = "online"
         /\ health[g].cpu_status = "critical"

Severities == {"none", "warning", "critical"}

\* C15: the overall status of an online host with a sample is warning if
\* a component is critical or warning or a service has failed, healthy
\* otherwise, and never down: whenever a host has been classified from
\* its stored sample, for what was persisted and for every combination of
\* severities.
C15_OverallStatus ==
    \A h \in Hosts :
         ClassifiedFromSample(h)
         => /\ \A c \in Severities, m \in Severities, d \in Severities,
                  f \in BOOLEAN :
                 _determine_overall_status(c, m, d, f) =
                   IF c # "none" \/ m # "none" \/ d # "none" \/ f
                   THEN "warning" ELSE "healthy"
            /\ ret.result = <<health[h].status>>
            /\ health[h].status =
                 IF \/ health[h].cpu_status # "normal"
                    \/ health[h].memory_status # "normal"
                    \/ health[h].disk_status # "normal"
                    \/ metrics_table[h][1].failed_services # <<>>
                 THEN "warning" ELSE "healthy"

\* A sample with a critical CPU was classified warning.
C15_Witness ==
    \E h \in Hosts :
        /\ ClassifiedFromSample(h)
        /\ health[h].cpu_status = "critical"
        /\ health[h].status = "warning"
        /\ ret.result = <<"warning">>

\* Inclusive classification of one value against two thresholds.
Classify(v, warning, critical) ==
    IF v >= critical THEN "critical" ELSE IF v >= warning THEN "warning" ELSE "normal"

\* Percentages at and next to the thresholds.
Percents == {0, 69, 70, 79, 80, 89, 90, 100}

\* Percentages around the disk thresholds, and lists of up to two
\* filesystems.
DiskProbes == {69, 70, 79, 80}

ProbeLists == UNION {[1..n -> [percentage : DiskProbes]] : n \in {0, 1, 2}}

\* The largest percentage of a list that is not empty.
Largest(l) == CHOOSE v \in {l[k].percentage : k \in DOMAIN l} :
                 \A k \in DOMAIN l : l[k].percentage <= v

\* C16: each component is classified on its own, critical from the
\* critical threshold on, warning from the warning threshold on, normal
\* below; the disk by the largest percentage of its filesystems, normal
\* without filesystems: whenever a host has been classified from its
\* stored sample, for what was persisted and for the values at and next
\* to the thresholds.
C16_ComponentThresholds ==
    \A h \in Hosts :
         ClassifiedFromSample(h)
         => LET metric == metrics_table[h][1]
            IN /\ \A v \in Percents :
                    /\ _evaluate_cpu_health(v)[1] =
                         Classify(v, cpu_warning_threshold, cpu_critical_threshold)
                    /\ _evaluate_memory_health(v)[1] =
                         Classify(v, memory_warning_threshold,
                                  memory_critical_threshold)
               /\ \A l \in ProbeLists :
                    _evaluate_disk_health(l)[1] =
                      IF l = <<>> THEN "normal"
                      ELSE Classify(Largest(l), disk_warning_threshold,
                                    disk_critical_threshold)
               /\ health[h].cpu_status =
                    Classify(metric.cpu_usage, cpu_warning_threshold,
                             cpu_critical_threshold)
               /\ health[h].memory_status =
                    Classify(metric.memory_percentage, memory_warning_threshold,
                             memory_critical_threshold)
               /\ health[h].disk_status =
                    IF metric.disk_usage = <<>> THEN "normal"
                    ELSE Classify(Largest(metric.disk_usage),
                                  disk_warning_threshold, disk_critical_threshold)

\* A sample whose second filesystem alone reaches the warning threshold
\* was classified with disk warning, CPU and memory normal.
C16_Witness ==
    \E h \in Hosts :
        /\ ClassifiedFromSample(h)
        /\ Len(metrics_table[h][1].disk_usage) = 2
        /\ metrics_table[h][1].disk_usage[1].percentage < disk_warning_threshold
        /\ metrics_table[h][1].disk_usage[2].percentage = disk_warning_threshold
        /\ health[h].disk_status = "warning"
        /\ health[h].cpu_status = "normal"
        /\ health[h].memory_status = "normal"

\* Times a host can have been seen or be evaluated at.
Times == {k * offline_timeout : k \in 0..(MaxTicks + 1)}

\* C17: connectivity is offline exactly when the age of last_seen is
\* strictly over the timeout or last_seen is missing; evaluating an
\* offline host persists down, offline and returns down without fetching
\* the sample, whatever sample is stored.
C17_OfflineShortCircuit ==
    /\ _evaluate_connectivity(None, now) = "offline"
    /\ \A ls \in Times :
         _evaluate_connectivity(Some(ls), now) =
           IF now - ls > offline_timeout_minutes * 60 THEN "offline" ELSE "online"
    /\ \A h \in Hosts :
         LET r == evaluate_server_health(servers, metrics_table, health, h, now)
             late == now - servers[h].last_seen > offline_timeout_minutes * 60
         IN /\ r.result = "down" <=> late
            /\ r.health[h].connectivity_status = "offline" <=> late
            /\ late => /\ ~r.fetched
                       /\ r.health[h].status = "down"
                       /\ r.health[h].cpu_status = "normal"
                       /\ r.health[h].memory_status = "normal"
                       /\ r.health[h].disk_status = "normal"
                       /\ \A m \in {None} \cup {Some(x) : x \in HealthSamples} :
                            evaluate_server_health(servers,
                                [metrics_table EXCEPT ![h] = m], health, h, now) = r
    /\ ret.op = "evaluate_server_health" /\ ret.result = <<"down">> => ret.count = 0

\* A host with a stored sample was evaluated as down without the sample
\* being fetched, while the other host, last seen exactly one timeout
\* ago, is persisted online.
C17_Witness ==
    /\ ret.op = "evaluate_server_health"
    /\ ret.result = <<"down">>
    /\ ret.count = 0
    /\ ret.server_id \in Hosts
    /\ metrics_table[ret.server_id] # None
    /\ health[ret.server_id].connectivity_status = "offline"
    /\ \E g \in Hosts :
         /\ now - servers[g].last_seen = offline_timeout_minutes * 60
         /\ health[g].connectivity_status = "online"
         /\ health[g].last_check = Some(now)

\* C18: evaluating an online host without a stored sample persists
\* warning, online and returns warning.
C18_NoSampleWarning ==
    \A h \in Hosts :
        (/\ metrics_table[h] = None
         /\ now - servers[h].last_seen <= offline_timeout_minutes * 60)
        => LET r == evaluate_server_health(servers, metrics_table, health, h, now)
           IN /\ r.result = "warning"
              /\ r.health[h].exists
              /\ r.health[h].status = "warning"
              /\ r.health[h].connectivity_status = "online"
              /\ \A g \in Hosts \ {h} : r.health[g] = health[g]

\* An online host without a sample was evaluated: warning was returned
\* and persisted.
C18_Witness ==
    /\ ret.op = "evaluate_server_health"
    /\ ret.result = <<"warning">>
    /\ ret.server_id \in Hosts
    /\ metrics_table[ret.server_id] = None
    /\ health[ret.server_id].status = "warning"
    /\ health[ret.server_id].connectivity_status = "online"
    /\ health[ret.server_id].last_check = Some(now)

\* Samples at and next to the severity cut-offs, each with at most one
\* filesystem.
SeverityProbes ==
    [server_id : Hosts, cpu_usage : {91, 94, 95},
     disk_usage : {<<>>} \cup {<<[mountpoint |-> <<"/">>, percentage |-> v]>> :
                                 v \in {81, 89, 90}}]

\* The severity the values of an alert call for.
SeverityOf(alert_type, value) ==
    IF value >= (IF alert_type = "cpu" THEN 95 ELSE 90)
    THEN "critical" ELSE "warning"

\* A stored cpu or disk alert carries the configured threshold, a value
\* over it and the severity that value calls for.
WellRecorded(a) ==
    a.alert_type \in {"cpu", "disk"}
    => /\ a.threshold_value =
            IF a.alert_type = "cpu" THEN cpu_threshold ELSE disk_threshold
       /\ a.actual_value > a.threshold_value
       /\ a.severity = SeverityOf(a.alert_type, a.actual_value)

\* C19: every alert evaluate_metrics creates records the configured
\* threshold and the sample's value, with severity critical from 95 (CPU)
\* or 90 (disk) on and warning below: for every stored alert, and for the
\* alerts created from samples at and next to the cut-offs.
C19_SeverityRecorded ==
    /\ \A i \in DOMAIN alerts : WellRecorded(alerts[i])
    /\ \A metrics \in SeverityProbes :
         \A scripts \in ScriptChoices(webhook_urls, <<>>) :
           LET r == evaluate_metrics(alerts, webhook_urls, metrics, scripts)
           IN \A k \in DOMAIN r.result :
                LET a == r.als[r.result[k]]
                IN /\ WellRecorded(a)
                   /\ a.server_id = metrics.server_id
                   /\ a.alert_type = "cpu" => a.actual_value = metrics.cpu_usage
                   /\ a.alert_type = "disk" =>
                        /\ metrics.disk_usage # <<>>
                        /\ a.actual_value = metrics.disk_usage[1].percentage

\* One evaluation created a critical cpu alert for 95 against 90 and a
\* warning disk alert for 85 against 80.
C19_Witness ==
    /\ ret.op = "evaluate_metrics"
    /\ Len(ret.result) = 2
    /\ LET a == alerts[ret.result[1]]
           b == alerts[ret.result[2]]
       IN /\ a.alert_type = "cpu" /\ a.severity = "critical"
          /\ a.actual_value = 95 /\ a.threshold_value = 90
          /\ b.alert_type = "disk" /\ b.severity = "warning"
          /\ b.actual_value = 85 /\ b.threshold_value = 80

\* One step of a call leaves the alerts that exist as they are, delivery
\* columns aside.
AlertsKept ==
    \A i \in DOMAIN alerts :
        /\ i \in DOMAIN alerts'
        /\ Durable(alerts'[i]) = Durable(alerts[i])

\* C20: evaluate_metrics and check_offline_servers never resolve or
\* otherwise change an existing alert, whatever the sample and whether or
\* not the host is online again; an open alert becomes resolved only in a
\* step of resolve_alerts_for_server or resolve_alert.
C20_NoAutoResolve ==
    [][/\ ret'.op \in {"evaluate_metrics", "check_offline_servers"} => AlertsKept
       /\ \A i \in DOMAIN alerts :
            (~alerts[i].is_resolved /\ (i \notin DOMAIN alerts' \/ alerts'[i].is_resolved))
            => ret'.op \in {"resolve_alerts_for_server", "resolve_alert"}]_vars

\* A sweep found a host online again, returned nothing and left the
\* host's offline alert open, next to an open cpu alert.
C20_Witness ==
    /\ ret.op = "check_offline_servers"
    /\ ret.result = <<>>
    /\ \E h \in Hosts :
         /\ OpenOf(alerts, h, "offline") # {}
         /\ ~Stale(servers, h, now)
    /\ \E i \in Open(alerts) : alerts[i].alert_type = "cpu"

\* C21: the offline sweep runs on a fixed period, so an active host that
\* has been silent for a whole timeout beyond the offline timeout has an
\* open offline alert and is classified down / offline.
C21_SilentHostAlerted ==
    \A h \in Hosts :
        (servers[h].is_active /\ now - servers[h].last_seen >= 2 * offline_timeout)
        => /\ OpenOf(alerts, h, "offline") # {}
           /\ health[h].exists
           /\ health[h].status = "down"
           /\ health[h].connectivity_status = "offline"

\* C22: every accepted submission is evaluated, so a stored sample whose
\* CPU exceeds the alert threshold comes with a CPU alert for its host and
\* a classification of the host.
C22_SubmissionEvaluated ==
    \A h \in Hosts :
        (metrics_table[h] # None /\ metrics_table[h][1].cpu_usage > cpu_threshold)
        => /\ RowsOf(alerts, h, "cpu") # {}
           /\ health[h].exists

\* The sends of the current call that failed.
FailedSends(t) == {k \in 1..Len(t.sent) : ~t.sent[k]}

\* What max_attempts allows: the value passed, max_retries when none is.
AllowedSends(t) ==
    IF t.max_attempts = None THEN t.max_retries ELSE t.max_attempts[1]

\* The back-off schedule with n as the number of attempts: a sleep of
\* backoff_factor^k after failed attempt k (from 0) while another attempt
\* remains, none after a success or after the last attempt, True on the
\* first success and False exactly when all n attempts failed.
Schedule(t, n) ==
    /\ Len(t.sent) <= n
    /\ \A k \in 1..Len(t.sent) : t.sent[k] => k = Len(t.sent) /\ t.pc = "done"
    /\ \A k \in 1..Len(t.slept) : t.slept[k] = Pow(t.backoff_factor, k - 1)
    /\ Len(t.slept) < n \/ n = 0
    /\ t.pc = "send" => Len(t.slept) = Len(t.sent)
    /\ t.pc = "sleep" => Len(t.slept) = Len(t.sent) - 1 /\ Len(t.sent) < n
    /\ t.pc = "done" =>
         /\ Len(t.slept) = IF Len(t.sent) = 0 THEN 0 ELSE Len(t.sent) - 1
         /\ t.result \in {Some(TRUE), Some(FALSE)}
         /\ t.result = Some(TRUE) <=> (Len(t.sent) > 0 /\ t.sent[Len(t.sent)])
         /\ t.result = Some(FALSE) <=>
              (FailedSends(t) = 1..Len(t.sent) /\ Len(t.sent) = n)

\* C23: send_with_exponential_backoff makes at most max_attempts sends,
\* returns True on the first success without sleeping afterwards, sleeps
\* backoff_factor^k after failed attempt k only when another attempt
\* remains, and returns False exactly when all attempts failed.
C23_BackoffSchedule ==
    transmitter.pc # "idle" => Schedule(transmitter, AllowedSends(transmitter))

\* The same schedule with the number of attempts the loop computed.
EffectiveSchedule ==
    transmitter.pc # "idle" => Schedule(transmitter, transmitter.attempts)

\* What start() and stop() would do in the current state.
C24_Calls ==
    ~agent.joining =>
      /\ ~agent._running =>
           LET a == start(agent, FALSE)
           IN /\ a.last = "start_raised"
              /\ ~a._running
              /\ a.threads = agent.threads
              /\ a._collection_thread = agent._collection_thread
      /\ agent._running =>
           \A authenticated \in BOOLEAN :
              start(agent, authenticated) = [agent EXCEPT !.last = "already_running"]
      /\ ~stop(agent)._running
      /\ agent._running => stop(agent)._shutdown_event
      /\ agent.last \in {"stopping", "stopped"} => agent._shutdown_event
      /\ agent.last = "start_raised" => ~agent._running

\* What one step may do to the collection threads.
C24_Step ==
    /\ agent._shutdown_event => agent'.collections = agent.collections
    /\ \A i \in 1..MaxThreads :
         /\ agent.threads[i] = "collecting" => agent'.threads[i] # "finished"
         /\ (agent'.threads[i] = "finished" /\ agent.threads[i] # "finished")
              => (agent._shutdown_event \/ ~agent._running)

C25_Step ==
    \A h \in Hosts :
        health'[h] # health[h] =>
          /\ health'[h].exists
          /\ health'[h].last_check = Some(now)
          /\ health'[h].status_since =
               IF health[h].exists /\ health[h].status = health'[h].status
               THEN health[h].status_since
               ELSE Some(now)

\* C25: every classification upsert sets status_since to the current time
\* exactly when the overall status differs from the stored one or no row
\* is stored; otherwise status_since is kept while last_check advances.
C25_StatusSince == [][C25_Step]_vars

\* A row re-checked later with its status unchanged.
C25_Witness ==
    \E h \in Hosts :
        /\ health[h].exists
        /\ health[h].status_since = Some(0)
        /\ health[h].last_check = Some(offline_timeout)
        /\ ret.op \in {"evaluate_server_health", "check_offline_servers"}

\* The alerts among ids whose message names the mountpoint.
ForMountpoint(als, ids, mountpoint) ==
    {i \in ids : als[i].alert_type = "disk" /\ Discriminator(als[i]) = mountpoint}

\* C26: disk alerts are deduplicated per mountpoint, for every mountpoint
\* the API accepts: a filesystem over the threshold gets no new alert when
\* an open disk alert of its host names its mountpoint, and exactly one
\* when none does.
C26_PerMountpointDedup ==
    \A metrics \in Samples :
        LET r == _check_disk_thresholds(alerts, metrics)
        IN \A k \in 1..Len(metrics.disk_usage) :
              LET disk == metrics.disk_usage[k]
                  open == ForMountpoint(alerts,
                              OpenOf(alerts, metrics.server_id, "disk"),
                              disk.mountpoint)
                  new == ForMountpoint(r.als, Range(r.created), disk.mountpoint)
              IN disk.percentage > disk_threshold =>
                    Cardinality(new) = IF open = {} THEN 1 ELSE 0

C28_CommittedBeforePost ==
    sender.pc = "post" => sender.todo[1] <= sender.durable

\* Sinks that answer every POST with 200.
Answering == CHOOSE s \in ScriptChoices(webhook_urls, <<>>) : TRUE

\* evaluate_metrics makes the storage call fault names for this sample.
EvaluationCalls(metrics, fault) ==
    \/ /\ fault = [op |-> "get_active_alerts", at |-> "cpu"]
       /\ metrics.cpu_usage > cpu_threshold
    \/ /\ fault = [op |-> "create_alert", at |-> "cpu"]
       /\ metrics.cpu_usage > cpu_threshold
       /\ OpenOf(alerts, metrics.server_id, "cpu") = {}
    \/ fault = [op |-> "get_active_alerts", at |-> "disk"]
    \/ /\ fault = [op |-> "create_alert", at |-> "disk"]
       /\ OpenOf(alerts, metrics.server_id, "disk") = {}
       /\ \E k \in DOMAIN metrics.disk_usage :
             metrics.disk_usage[k].percentage > disk_threshold

\* The sweep makes the storage call fault names.
SweepCalls(fault) ==
    /\ Stale(servers, fault.at, now)
    /\ fault.op = "create_alert" => OpenOf(alerts, fault.at, "offline") = {}

\* C29: a storage failure while evaluate_metrics or check_offline_servers
\* reads the open alerts or creates an alert reaches the caller as an
\* exception, never as an empty result, and no notification is sent for
\* an alert whose creation failed.
C29_StorageFailurePropagates ==
    /\ \A metrics \in Samples, fault \in EvaluateFaults :
          LET r == evaluate_metrics_failing(alerts, webhook_urls, metrics,
                                            Answering, fault)
          IN EvaluationCalls(metrics, fault) =>
                r.raised /\ r.deliveries = <<>> /\ r.als = alerts
    /\ \A fault \in SweepFaults :
          LET r == check_offline_servers_failing(servers, alerts, health,
                       webhook_urls, now, Answering, fault)
          IN SweepCalls(fault) =>
                /\ r.raised
                /\ RowsOf(r.als, fault.at, "offline") = RowsOf(alerts, fault.at, "offline")
                /\ \A k \in DOMAIN r.deliveries :
                      /\ r.deliveries[k].alert_id \in DOMAIN r.als
                      /\ r.als[r.deliveries[k].alert_id].server_id # fault.at
    /\ ret.raised =>
          \A k \in DOMAIN ret.deliveries :
             /\ ret.deliveries[k].alert_id \in DOMAIN alerts
             /\ alerts[ret.deliveries[k].alert_id].server_id # ret.server_id

\* A sweep that notified the sink of one host's alert and then failed on
\* the other host.
C29_Witness ==
    /\ ret.op = "check_offline_servers"
    /\ ret.raised
    /\ ret.deliveries # <<>>
    /\ RowsOf(alerts, ret.server_id, "offline") = {}

\* C30: a storage failure on one host does not stop the sweep: every other
\* stale host without an open offline alert has one after the sweep.
C30_SweepContinues ==
    (ret.op = "check_offline_servers" /\ ret.raised) =>
        \A h \in Hosts \ {ret.server_id} :
            Stale(servers, h, now) => OpenOf(alerts, h, "offline") # {}

\* What one step may do to a deregistered host and to what is stored.
C31_Step ==
    /\ \A h \in Hosts :
          ~servers[h].is_active =>
             /\ ~servers'[h].is_active
             /\ RowsOf(alerts', h, "offline") = RowsOf(alerts, h, "offline")
             /\ health'[h] = health[h]
    /\ DOMAIN servers' = DOMAIN servers
    /\ Len(alerts') >= Len(alerts)
    /\ \A i \in DOMAIN alerts : Durable(alerts'[i]) = Durable(alerts[i])

\* C31: once a host is deregistered no later sweep creates an offline
\* alert for it or changes its classification, however stale it becomes;
\* its record and its alerts are kept.
C31_DeregisteredIgnored == [][C31_Step]_vars

\* A sweep that alerted on the other host and passed over a deregistered
\* host as stale as it.
C31_Witness ==
    \E h \in Hosts :
        /\ ~servers[h].is_active
        /\ now - servers[h].last_seen > offline_timeout
        /\ ret.op = "check_offline_servers"
        /\ ret.result # <<>>
        /\ RowsOf(alerts, h, "offline") = {}

\* C32: when check_offline_servers has returned, every active host whose
\* last_seen exceeds the offline timeout is classified down / offline,
\* also a host that still has the open offline alert of an earlier outage.
C32_StaleHostsDown ==
    ret.op = "check_offline_servers" =>
        \A h \in Hosts :
            Stale(servers, h, now) =>
                /\ health[h].exists
                /\ health[h].status = "down"
                /\ health[h].connectivity_status = "offline"

\* What one step may do to a resolved alert, and what a call that counts
\* an alert as resolved must have done.
C33_Step ==
    /\ \A i \in DOMAIN alerts :
          alerts[i].is_resolved =>
             /\ alerts'[i].is_resolved
             /\ alerts'[i].resolved_at = alerts[i].resolved_at
    /\ (ret'.op \in {"resolve_alert", "resolve_alerts_for_server"} /\ ret' # ret)
          => ret'.count =
               Cardinality({i \in DOMAIN alerts :
                               ~alerts[i].is_resolved /\ alerts'[i].is_resolved})

\* C33: once an alert is resolved its resolved_at never changes again, and
\* it is counted as resolved by exactly one call.
C33_ResolvedOnce == [][C33_Step]_vars

\* The deliveries of the last call that were for the alert.
DeliveriesOf(alert_id) ==
    {k \in DOMAIN ret.deliveries : ret.deliveries[k].alert_id = alert_id}

\* C34: webhook_sent is true only if a sink answered the alert's
\* notification with a status under 400, the stored response code is then
\* under 400 too, and a delivery that failed on every attempt leaves
\* webhook_sent false.
C34_SentMeansDelivered ==
    \A id \in Range(ret.result) :
        LET delivered == \E k \in DeliveriesOf(id) : ret.deliveries[k].ok
        IN /\ alerts[id].webhook_sent => delivered
           /\ delivered =>
                /\ alerts[id].webhook_response_code # None
                /\ alerts[id].webhook_response_code[1] < 400

\* C35: an alert a sink was notified of is in committed storage, also
\* when the commit after the dispatch fails or the process stops between
\* the two.
C35_NotifiedIsStored ==
    (ret.op = "_process_alert" /\ ret.raised) =>
        \A id \in Range(ret.result) :
            (\E k \in DOMAIN ret.deliveries : ret.deliveries[k].ok)
               => id \in DOMAIN alerts

\* The server accepted and stored every submission of the cycle.
HealthyServer(tr) ==
    \A i \in DOMAIN tr.answers : tr.answers[i] = HTTP_201_CREATED

\* C36: a submission the server accepted and stored is a success for
\* send_metrics, so a cycle against a server that accepts every
\* submission ends after one send with one sample stored.
C36_StoredOncePerCycle ==
    /\ \A i \in DOMAIN transmitter.answers :
          transmitter.answers[i] = HTTP_201_CREATED => transmitter.sent[i]
    /\ (transmitter.pc = "done" /\ transmitter.attempts > 0
                                /\ HealthyServer(transmitter))
          => /\ transmitter.result = Some(TRUE)
             /\ Len(transmitter.sent) = 1
             /\ transmitter.stored = 1

\* A submission handled in this step leaves every host other than the one
\* its key was issued for with the sample and the last_seen it had.
C37_Step ==
    \A b \in Hosts :
        (ret'.op = "_submit_metrics" /\ ret'.result # <<b>>)
            => /\ metrics_table'[b] = metrics_table[b]
               /\ servers'[b].last_seen = servers[b].last_seen

\* C37: a host's sample and last_seen change only by a submission whose
\* key was issued for that host.
C37_KeyBoundToHost == [][C37_Step]_vars

\* C38: once max_failed_attempts requests of an address were rejected for
\* malicious content, a request of that address handled within
\* block_duration of the last of them is answered 429.
C38_BlockedAfterFailures ==
    \A ip \in ClientIPs :
        (/\ security.last # None
         /\ security.last[1].ip = ip
         /\ security.last[1].rejected_before >= max_failed_attempts
         /\ security.rejected_at[ip] # None
         /\ now - security.rejected_at[ip][1] < block_duration)
            => security.last[1].status_code = HTTP_429_TOO_MANY_REQUESTS

\* C39: an evaluation that returned 'down' was of a host without a record
\* or of an offline host, a failing storage call included.
C39_DownOnlyWhenOffline ==
    (ret.op = "evaluate_server_health" /\ ret.result = <<"down">>)
        => \/ ret.server_id \notin DOMAIN servers
           \/ _evaluate_connectivity(Some(servers[ret.server_id].last_seen),
                                     now) = "offline"

\* evaluate_metrics on the sample, without sinks.
Evaluated(metrics) ==
    evaluate_metrics(alerts, <<>>, metrics,
                     CHOOSE scripts \in ScriptChoices(<<>>, <<>>) : TRUE).als

\* An open disk alert of the host names a filesystem of the sample with
\* the highest percentage.
WorstFilesystemAlerted(als, metrics) ==
    \E k \in 1..Len(metrics.disk_usage) :
        /\ metrics.disk_usage[k].percentage = MaxPercentage(metrics.disk_usage)
        /\ ForMountpoint(als, OpenOf(als, metrics.server_id, "disk"),
                         metrics.disk_usage[k].mountpoint) # {}

====
